---- MODULE Spec2Model ----
(***************************************************************************)
(* State-machine model of the router deployment of the PowerHouse Gym CMS  *)
(* backend: the relational tables, the JWT middleware, the activity        *)
(* journal and the CRUD route handlers.  Every handler is one atomic       *)
(* action (better-sqlite3 and the express handlers are synchronous).       *)
(*                                                                         *)
(* Conventions                                                             *)
(*  - a request body is a function from field names to values; a field     *)
(*    that is not in its domain is JavaScript `undefined`;                 *)
(*  - text fields hold strings, numeric fields naturals, flags booleans;   *)
(*  - SQL NULL / JSON null in an id column is the value Null;              *)
(*  - a list response carries the set of rows (ordering, limit and offset  *)
(*    are not modelled);                                                   *)
(*  - every behaviour has a budget of committed writes (ops), so that the  *)
(*    state space is finite; rejected requests and reads are not counted;  *)
(*  - transport details (ip address, CORS, rate limiting) are left out.    *)
(*  - the server's local time zone is UTC.                                 *)
(***************************************************************************)
EXTENDS Integers, Sequences, FiniteSets, TLC

\* db   : the SQLite database, one field per table (a set of rows), the
\*        journal activity_logs (a sequence) and seq, the AUTOINCREMENT
\*        high-water mark of every table
\* now  : the wall clock
\* ops  : number of create, update and delete requests the behaviour may
\*        still commit
\* resp : the last request and its response
\* disk : the files present under the uploads directory
\* fn   : the serverless settings update in flight, with the entries of its
\*        mapping and the index of the entry its loop is at
\* boot : per serverless request inside initDatabase, the statement it is
\*        at and the index of the row its loop is at
\* twin : the store of the serverless deployment and the router's last
\*        response, while one sequence of requests is run against both
VARIABLES db, now, ops, resp, disk, fn, boot, twin

vars == <<db, now, ops, resp, disk, fn, boot, twin>>

(***************************************************************************)
(* Bounds of the model.                                                    *)
(***************************************************************************)
\* number of creates, updates and deletes committed in one behaviour
MaxOps == 2

\* the same number for the behaviours that build a gallery with two albums
MaxRefOps == 6

\* last instant of the clock
MaxTime == 3

\* number of clock instants that make up one calendar day
TicksPerDay == 2

\* number of files uploaded in one behaviour
MaxUploads == 1

Null == 0

AdminId == 1

\* a user id that no row of users carries
GhostId == 2

(***************************************************************************)
(* Authorization header and JWT middleware.                                *)
(***************************************************************************)
NoHeader == [scheme |-> "", token |-> [sig |-> "", userId |-> Null, exp |-> 0]]

NoToken == [sig |-> "", userId |-> Null, exp |-> 0]

Header(scheme, sig, userId, exp) ==
    [scheme |-> scheme, token |-> [sig |-> sig, userId |-> userId, exp |-> exp]]

AdminHeader == Header("Bearer", "good", AdminId, MaxTime + 1)

GarbageHeader == Header("Bearer", "bad", AdminId, MaxTime + 1)

ExpiredHeader == Header("Bearer", "good", AdminId, 0)

GhostHeader == Header("Bearer", "good", GhostId, MaxTime + 1)

\* "Bearer " followed by nothing
EmptyBearerHeader == [scheme |-> "Bearer", token |-> NoToken]

\* a verifying token sent under another scheme word, e.g. "Token <jwt>"
OtherSchemeHeader == Header("Token", "good", AdminId, MaxTime + 1)

Headers == {NoHeader, AdminHeader, GarbageHeader, ExpiredHeader, GhostHeader,
            EmptyBearerHeader, OtherSchemeHeader}

\* authHeader && authHeader.split(' ')[1]
HeaderToken(h) == h.token

\* a header test that takes every caller for an administrator
isAdminAlways(h) == TRUE

\* a header test that asks for a bearer token with a good signature
isAdminSigned(h) ==
    /\ h # NoHeader
    /\ h.scheme = "Bearer"
    /\ h.token # NoToken
    /\ h.token.sig = "good"

\* authHeader && authHeader.startsWith('Bearer ')
isAdmin(h) == h # NoHeader /\ h.scheme = "Bearer"

\* jwt.verify(token, JWT_SECRET): "ok", "expired" or "invalid"
jwt_verify(t) ==
    IF t.sig # "good" THEN "invalid"
    ELSE IF now >= t.exp THEN "expired"
    ELSE "ok"

authenticateToken(h) ==
    LET token == HeaderToken(h) IN
    IF token = NoToken
    THEN [status |-> 401, error |-> "Authentication required", user |-> Null]
    ELSE IF jwt_verify(token) = "expired"
    THEN [status |-> 401, error |-> "Token expired", user |-> Null]
    ELSE IF jwt_verify(token) = "invalid"
    THEN [status |-> 403, error |-> "Invalid token", user |-> Null]
    ELSE IF ~(\E u \in db.users : u.id = token.userId)
    THEN [status |-> 401, error |-> "User not found", user |-> Null]
    ELSE [status |-> 200, error |-> "", user |-> token.userId]

\* an optionalAuth that trusts the decoded token without the users lookup
optionalAuthNoLookup(h) ==
    LET token == HeaderToken(h) IN
    IF token = NoToken THEN Null
    ELSE IF jwt_verify(token) # "ok" THEN Null
    ELSE token.userId

\* req.user after optionalAuth: the user id, or Null
optionalAuth(h) ==
    LET token == HeaderToken(h) IN
    IF token = NoToken THEN Null
    ELSE IF jwt_verify(token) # "ok" THEN Null
    ELSE IF \E u \in db.users : u.id = token.userId THEN token.userId
    ELSE Null

(***************************************************************************)
(* JavaScript idioms of the handlers, on a body b and a field name f.      *)
(***************************************************************************)
Has(b, f) == f \in DOMAIN b

\* `x || d` on a text field
OrS(b, f, d) == IF Has(b, f) /\ b[f] # "" THEN b[f] ELSE d

\* `x || d` on a numeric field
OrN(b, f, d) == IF Has(b, f) /\ b[f] # 0 THEN b[f] ELSE d

\* `x !== undefined ? x : d`
Def(b, f, d) == IF Has(b, f) THEN b[f] ELSE d

\* `x ? 1 : 0` on a flag
Flag(b, f) == IF Has(b, f) /\ b[f] THEN 1 ELSE 0

\* `x !== undefined ? (x ? 1 : 0) : d`
FlagDef(b, f, d) == IF Has(b, f) THEN (IF b[f] THEN 1 ELSE 0) ELSE d

\* the empty string sent where a date is expected
EmptyDate == [fmt |-> "empty", t |-> 0]

\* `x || d` on a date field
OrD(b, f, d) == IF Has(b, f) /\ b[f] # EmptyDate THEN b[f] ELSE d

\* `x === undefined` on a text field: the empty string is taken as given
MissingSAbsent(b, f) == ~Has(b, f)

\* `!x` on a text field
MissingS(b, f) == ~Has(b, f) \/ b[f] = ""

EmptyBody == [x \in {} |-> ""]

(***************************************************************************)
(* Responses and the journal.                                              *)
(***************************************************************************)
\* the request (op, h, id, b), its response (status, out) and the instant
\* at which it was answered
Reply(op, h, id, b, status, out) ==
    [op |-> op, h |-> h, id |-> id, b |-> b, status |-> status, out |-> out, at |-> now]

\* a journal that keeps one row per entity: the row of the entity is
\* overwritten where there is one
logActivityUpsert(d, userId, action, entityType, entityId, details) ==
    LET row == [id |-> Len(d.activity_logs) + 1, user_id |-> userId, action |-> action,
                entity_type |-> entityType, entity_id |-> entityId,
                details |-> details, created_at |-> now]
        same(al) == al.entity_type = entityType /\ al.entity_id = entityId
    IN [d EXCEPT !.activity_logs =
           IF \E k \in 1..Len(@) : same(@[k])
           THEN [k \in 1..Len(@) |-> IF same(@[k]) THEN [row EXCEPT !.id = k] ELSE @[k]]
           ELSE Append(@, row)]

\* INSERT INTO activity_logs ..., on the database value d
logActivity(d, userId, action, entityType, entityId, details) ==
    [d EXCEPT !.activity_logs =
        Append(@, [id |-> Len(@) + 1, user_id |-> userId, action |-> action,
                   entity_type |-> entityType, entity_id |-> entityId,
                   details |-> details, created_at |-> now])]

\* result.lastInsertRowid of the next INSERT INTO t
NextId(t) == db.seq[t] + 1

\* INSERT INTO t, on the database value d
InsertIn(d, t, row) == [d EXCEPT ![t] = @ \cup {row}, !.seq[t] = @ + 1]

\* INSERT INTO t
Insert(t, row) == InsertIn(db, t, row)

\* UPDATE t SET ... WHERE id = old.id
Update(t, old, row) == [db EXCEPT ![t] = (@ \ {old}) \cup {row}]

\* SELECT * FROM t WHERE id = ?
Row(t, id) == CHOOSE r \in db[t] : r.id = id

Exists(t, id) == \E r \in db[t] : r.id = id

\* a read: nothing but the response changes
Read(r) ==
    /\ resp' = r
    /\ UNCHANGED <<db, now, ops, disk, fn, boot, twin>>

\* a mutating request that is answered without any write
Rejected(r) ==
    /\ resp' = r
    /\ UNCHANGED <<db, now, ops, disk, fn, boot, twin>>

\* a mutating request whose writes leave the database as d
Commit(d, r) ==
    /\ ops > 0
    /\ db' = d
    /\ resp' = r
    /\ ops' = ops - 1
    /\ UNCHANGED <<now, disk, fn, boot, twin>>

(***************************************************************************)
(* Pages routes.                                                           *)
(***************************************************************************)
\* router.get('/')
PagesList(h) ==
    Read(Reply("pages.list", h, Null, EmptyBody, 200,
               IF isAdmin(h) THEN db.pages
               ELSE {p \in db.pages : p.is_published = 1}))

\* router.get('/:slug')
PagesGet(h, slug) ==
    Read(IF ~(\E p \in db.pages : p.slug = slug)
         THEN Reply("pages.get", h, Null, [slug |-> slug], 404, "Page not found")
         ELSE LET page == CHOOSE p \in db.pages : p.slug = slug IN
              IF page.is_published = 0 /\ ~isAdmin(h)
              THEN Reply("pages.get", h, Null, [slug |-> slug], 404, "Page not found")
              ELSE Reply("pages.get", h, page.id, [slug |-> slug], 200, page))

\* a slug check that never finds a row
SlugTakenNever(t, slug) == FALSE

\* SELECT id FROM t WHERE slug = ?
SlugTaken(t, slug) == \E p \in db[t] : p.slug = slug

\* router.post('/')
PagesPost(h, b) ==
    LET auth == authenticateToken(h) IN
    /\ IF auth.status # 200
       THEN Rejected(Reply("pages.post", h, Null, b, auth.status, auth.error))
       ELSE IF MissingS(b, "title") \/ MissingS(b, "slug")
       THEN Rejected(Reply("pages.post", h, Null, b, 400, "Title and slug are required"))
       ELSE IF SlugTaken("pages", b.slug)
       THEN Rejected(Reply("pages.post", h, Null, b, 400, "Slug already exists"))
       ELSE LET page == [id |-> NextId("pages"),
                         title |-> b.title,
                         slug |-> b.slug,
                         content |-> OrS(b, "content", ""),
                         meta_title |-> OrS(b, "meta_title", b.title),
                         meta_description |-> OrS(b, "meta_description", ""),
                         meta_keywords |-> OrS(b, "meta_keywords", ""),
                         is_published |-> Flag(b, "is_published"),
                         created_at |-> now,
                         updated_at |-> now]
            IN Commit(logActivity(Insert("pages", page), auth.user, "create", "page",
                                  page.id, <<"Created page: ", b.title>>),
                      Reply("pages.post", h, page.id, b, 201, page))

\* the row written by the UPDATE of router.put('/:id')
PagesMerge(existing, b) ==
    [existing EXCEPT
        !.title = OrS(b, "title", existing.title),
        !.slug = OrS(b, "slug", existing.slug),
        !.content = Def(b, "content", existing.content),
        !.meta_title = OrS(b, "meta_title", existing.meta_title),
        !.meta_description = Def(b, "meta_description", existing.meta_description),
        !.meta_keywords = Def(b, "meta_keywords", existing.meta_keywords),
        !.is_published = FlagDef(b, "is_published", existing.is_published),
        !.updated_at = now]

\* a slug check that does not exempt the row's own slug
SlugConflictOwn(t, existing, b) ==
    /\ ~MissingS(b, "slug")
    /\ \E p \in db[t] : p.slug = b.slug

\* the slug check of router.put('/:id'), on table t
SlugConflict(t, existing, b) ==
    /\ ~MissingS(b, "slug")
    /\ b.slug # existing.slug
    /\ \E p \in db[t] : p.slug = b.slug /\ p.id # existing.id

\* router.put('/:id')
PagesPut(h, id, b) ==
    LET auth == authenticateToken(h) IN
    /\ IF auth.status # 200
       THEN Rejected(Reply("pages.put", h, id, b, auth.status, auth.error))
       ELSE IF ~Exists("pages", id)
       THEN Rejected(Reply("pages.put", h, id, b, 404, "Page not found"))
       ELSE LET existing == Row("pages", id) IN
            IF SlugConflict("pages", existing, b)
            THEN Rejected(Reply("pages.put", h, id, b, 400, "Slug already exists"))
            ELSE LET page == PagesMerge(existing, b) IN
                 Commit(logActivity(Update("pages", existing, page), auth.user, "update",
                                    "page", page.id, <<"Updated page: ", page.title>>),
                        Reply("pages.put", h, id, b, 200, page))

\* router.delete('/:id')
PagesDelete(h, id) ==
    LET auth == authenticateToken(h) IN
    /\ IF auth.status # 200
       THEN Rejected(Reply("pages.delete", h, id, EmptyBody, auth.status, auth.error))
       ELSE IF ~Exists("pages", id)
       THEN Rejected(Reply("pages.delete", h, id, EmptyBody, 404, "Page not found"))
       ELSE LET page == Row("pages", id) IN
            Commit(logActivity([db EXCEPT !.pages = @ \ {page}], auth.user, "delete",
                               "page", page.id, <<"Deleted page: ", page.title>>),
                   Reply("pages.delete", h, id, EmptyBody, 200, "Page deleted successfully"))

(***************************************************************************)
(* Blog routes.  A publish_date is [fmt, t]: the instant t written either  *)
(* as an ISO-8601 string ("iso", what toISOString() produces) or in the    *)
(* SQL form 'YYYY-MM-DD HH:MM:SS' ("sql").                                 *)
(***************************************************************************)
Day(t) == t \div TicksPerDay

\* new Date().toISOString()
toISOString(t) == [fmt |-> "iso", t |-> t]

\* SQLite text comparison `publish_date <= CURRENT_TIMESTAMP`.  The right
\* side has the SQL form.  An ISO string of the same day compares greater
\* ('T' > ' '); otherwise the day prefix decides.
SqlLeqNow(pd) ==
    IF pd.fmt = "sql" THEN pd.t <= now ELSE Day(pd.t) < Day(now)

\* new Date(post.publish_date) > new Date()
JsAfterNow(pd) == pd.t > now

\* a WHERE clause without the conditions on status and publish_date
BlogVisibleAll(user, category, p) == category # "" => p.category = category

\* the WHERE clause of router.get('/'), on req.user and the category filter
BlogVisible(user, category, p) ==
    /\ user = Null => (p.status = "published" /\ SqlLeqNow(p.publish_date))
    /\ category # "" => p.category = category

\* router.get('/') behind optionalAuth
BlogList(h, category) ==
    LET user == optionalAuth(h) IN
    Read(Reply("blog.list", h, Null, [category |-> category], 200,
               {p \in db.blog_posts : BlogVisible(user, category, p)}))

\* router.get('/:slug') behind optionalAuth
BlogGet(h, slug) ==
    LET user == optionalAuth(h) IN
    Read(IF ~(\E p \in db.blog_posts : p.slug = slug)
         THEN Reply("blog.get", h, Null, [slug |-> slug], 404, "Post not found")
         ELSE LET post == CHOOSE p \in db.blog_posts : p.slug = slug IN
              IF user = Null /\ (post.status # "published" \/ JsAfterNow(post.publish_date))
              THEN Reply("blog.get", h, Null, [slug |-> slug], 404, "Post not found")
              ELSE Reply("blog.get", h, post.id, [slug |-> slug], 200, post))

\* router.post('/')
BlogPost(h, b) ==
    LET auth == authenticateToken(h) IN
    /\ IF auth.status # 200
       THEN Rejected(Reply("blog.post", h, Null, b, auth.status, auth.error))
       ELSE IF MissingS(b, "title") \/ MissingS(b, "slug")
       THEN Rejected(Reply("blog.post", h, Null, b, 400, "Title and slug are required"))
       ELSE IF SlugTaken("blog_posts", b.slug)
       THEN Rejected(Reply("blog.post", h, Null, b, 400, "Slug already exists"))
       ELSE LET post == [id |-> NextId("blog_posts"),
                         title |-> b.title,
                         slug |-> b.slug,
                         excerpt |-> OrS(b, "excerpt", ""),
                         content |-> OrS(b, "content", ""),
                         featured_image |-> OrS(b, "featured_image", ""),
                         category |-> OrS(b, "category", ""),
                         tags |-> OrS(b, "tags", ""),
                         status |-> OrS(b, "status", "draft"),
                         publish_date |-> OrD(b, "publish_date", toISOString(now)),
                         author_id |-> auth.user,
                         created_at |-> now,
                         updated_at |-> now]
            IN Commit(logActivity(Insert("blog_posts", post), auth.user, "create",
                                  "blog_post", post.id, <<"Created post: ", b.title>>),
                      Reply("blog.post", h, post.id, b, 201, post))

\* the row written by the UPDATE of router.put('/:id')
BlogMerge(existing, b) ==
    [existing EXCEPT
        !.title = OrS(b, "title", existing.title),
        !.slug = OrS(b, "slug", existing.slug),
        !.excerpt = Def(b, "excerpt", existing.excerpt),
        !.content = Def(b, "content", existing.content),
        !.featured_image = Def(b, "featured_image", existing.featured_image),
        !.category = Def(b, "category", existing.category),
        !.tags = Def(b, "tags", existing.tags),
        !.status = OrS(b, "status", existing.status),
        !.publish_date = OrD(b, "publish_date", existing.publish_date),
        !.updated_at = now]

\* router.put('/:id')
BlogPut(h, id, b) ==
    LET auth == authenticateToken(h) IN
    /\ IF auth.status # 200
       THEN Rejected(Reply("blog.put", h, id, b, auth.status, auth.error))
       ELSE IF ~Exists("blog_posts", id)
       THEN Rejected(Reply("blog.put", h, id, b, 404, "Post not found"))
       ELSE LET existing == Row("blog_posts", id) IN
            IF SlugConflict("blog_posts", existing, b)
            THEN Rejected(Reply("blog.put", h, id, b, 400, "Slug already exists"))
            ELSE LET post == BlogMerge(existing, b) IN
                 Commit(logActivity(Update("blog_posts", existing, post), auth.user,
                                    "update", "blog_post", post.id,
                                    <<"Updated post: ", post.title>>),
                        Reply("blog.put", h, id, b, 200, post))

\* router.delete('/:id')
BlogDelete(h, id) ==
    LET auth == authenticateToken(h) IN
    /\ IF auth.status # 200
       THEN Rejected(Reply("blog.delete", h, id, EmptyBody, auth.status, auth.error))
       ELSE IF ~Exists("blog_posts", id)
       THEN Rejected(Reply("blog.delete", h, id, EmptyBody, 404, "Post not found"))
       ELSE LET post == Row("blog_posts", id) IN
            Commit(logActivity([db EXCEPT !.blog_posts = @ \ {post}], auth.user, "delete",
                               "blog_post", post.id, <<"Deleted post: ", post.title>>),
                   Reply("blog.delete", h, id, EmptyBody, 200, "Post deleted successfully"))

\* the wall clock advances
Tick ==
    /\ now < MaxTime
    /\ now' = now + 1
    /\ UNCHANGED <<db, ops, resp, disk, fn, boot, twin>>

(***************************************************************************)
(* Trainers routes.                                                        *)
(***************************************************************************)
\* router.get('/')
TrainersList(h) ==
    Read(Reply("trainers.list", h, Null, EmptyBody, 200,
               IF isAdmin(h) THEN db.trainers
               ELSE {t \in db.trainers : t.is_active = 1}))

\* router.get('/:id')
TrainersGet(h, id) ==
    Read(IF ~Exists("trainers", id)
         THEN Reply("trainers.get", h, id, EmptyBody, 404, "Trainer not found")
         ELSE Reply("trainers.get", h, id, EmptyBody, 200, Row("trainers", id)))

\* router.post('/')
TrainersPost(h, b) ==
    LET auth == authenticateToken(h) IN
    /\ IF auth.status # 200
       THEN Rejected(Reply("trainers.post", h, Null, b, auth.status, auth.error))
       ELSE IF MissingS(b, "name")
       THEN Rejected(Reply("trainers.post", h, Null, b, 400, "Name is required"))
       ELSE LET trainer == [id |-> NextId("trainers"),
                            name |-> b.name,
                            specialty |-> OrS(b, "specialty", ""),
                            bio |-> OrS(b, "bio", ""),
                            photo |-> OrS(b, "photo", ""),
                            email |-> OrS(b, "email", ""),
                            phone |-> OrS(b, "phone", ""),
                            social_facebook |-> OrS(b, "social_facebook", ""),
                            social_instagram |-> OrS(b, "social_instagram", ""),
                            social_twitter |-> OrS(b, "social_twitter", ""),
                            certifications |-> OrS(b, "certifications", ""),
                            is_active |-> FlagDef(b, "is_active", 1),
                            sort_order |-> OrN(b, "sort_order", 0),
                            created_at |-> now]
            IN Commit(logActivity(Insert("trainers", trainer), auth.user, "create",
                                  "trainer", trainer.id, <<"Created trainer: ", b.name>>),
                      Reply("trainers.post", h, trainer.id, b, 201, trainer))

\* the row written by the UPDATE of router.put('/:id')
TrainersMerge(existing, b) ==
    [existing EXCEPT
        !.name = OrS(b, "name", existing.name),
        !.specialty = Def(b, "specialty", existing.specialty),
        !.bio = Def(b, "bio", existing.bio),
        !.photo = Def(b, "photo", existing.photo),
        !.email = Def(b, "email", existing.email),
        !.phone = Def(b, "phone", existing.phone),
        !.social_facebook = Def(b, "social_facebook", existing.social_facebook),
        !.social_instagram = Def(b, "social_instagram", existing.social_instagram),
        !.social_twitter = Def(b, "social_twitter", existing.social_twitter),
        !.certifications = Def(b, "certifications", existing.certifications),
        !.is_active = FlagDef(b, "is_active", existing.is_active),
        !.sort_order = Def(b, "sort_order", existing.sort_order)]

\* router.put('/:id')
TrainersPut(h, id, b) ==
    LET auth == authenticateToken(h) IN
    /\ IF auth.status # 200
       THEN Rejected(Reply("trainers.put", h, id, b, auth.status, auth.error))
       ELSE IF ~Exists("trainers", id)
       THEN Rejected(Reply("trainers.put", h, id, b, 404, "Trainer not found"))
       ELSE LET existing == Row("trainers", id)
                trainer == TrainersMerge(existing, b)
            IN Commit(logActivity(Update("trainers", existing, trainer), auth.user,
                                  "update", "trainer", trainer.id,
                                  <<"Updated trainer: ", trainer.name>>),
                      Reply("trainers.put", h, id, b, 200, trainer))

\* PRAGMA foreign_keys = ON with classes.trainer_id REFERENCES trainers(id)
\* and no ON DELETE clause: the DELETE of a referenced trainer fails
TrainerReferenced(id) == \E c \in db.classes : c.trainer_id = id

\* router.delete('/:id')
TrainersDelete(h, id) ==
    LET auth == authenticateToken(h) IN
    /\ IF auth.status # 200
       THEN Rejected(Reply("trainers.delete", h, id, EmptyBody, auth.status, auth.error))
       ELSE IF ~Exists("trainers", id)
       THEN Rejected(Reply("trainers.delete", h, id, EmptyBody, 404, "Trainer not found"))
       ELSE IF TrainerReferenced(id)
       THEN Rejected(Reply("trainers.delete", h, id, EmptyBody, 500,
                           "Failed to delete trainer"))
       ELSE LET trainer == Row("trainers", id) IN
            Commit(logActivity([db EXCEPT !.trainers = @ \ {trainer}], auth.user,
                               "delete", "trainer", trainer.id,
                               <<"Deleted trainer: ", trainer.name>>),
                   Reply("trainers.delete", h, id, EmptyBody, 200,
                         "Trainer deleted successfully"))

(***************************************************************************)
(* Classes routes.                                                         *)
(***************************************************************************)
\* router.get('/'); the LEFT JOIN adds trainer columns and no row
ClassesList(h) ==
    Read(Reply("classes.list", h, Null, EmptyBody, 200,
               IF isAdmin(h) THEN db.classes
               ELSE {c \in db.classes : c.is_active = 1}))

\* router.get('/:id')
ClassesGet(h, id) ==
    Read(IF ~Exists("classes", id)
         THEN Reply("classes.get", h, id, EmptyBody, 404, "Class not found")
         ELSE Reply("classes.get", h, id, EmptyBody, 200, Row("classes", id)))

\* the foreign key classes.trainer_id REFERENCES trainers(id) accepts the row
TrainerFkOk(trainer_id) == trainer_id = Null \/ Exists("trainers", trainer_id)

\* router.post('/')
ClassesPost(h, b) ==
    LET auth == authenticateToken(h) IN
    /\ IF auth.status # 200
       THEN Rejected(Reply("classes.post", h, Null, b, auth.status, auth.error))
       ELSE IF MissingS(b, "name")
       THEN Rejected(Reply("classes.post", h, Null, b, 400, "Name is required"))
       ELSE LET classItem == [id |-> NextId("classes"),
                              name |-> b.name,
                              description |-> OrS(b, "description", ""),
                              short_description |-> OrS(b, "short_description", ""),
                              image |-> OrS(b, "image", ""),
                              trainer_id |-> OrN(b, "trainer_id", Null),
                              schedule |-> OrS(b, "schedule", ""),
                              duration |-> OrN(b, "duration", 60),
                              capacity |-> OrN(b, "capacity", 20),
                              price |-> OrN(b, "price", 0),
                              difficulty |-> OrS(b, "difficulty", "intermediate"),
                              is_active |-> FlagDef(b, "is_active", 1),
                              sort_order |-> OrN(b, "sort_order", 0),
                              created_at |-> now]
            IN IF ~TrainerFkOk(classItem.trainer_id)
               THEN Rejected(Reply("classes.post", h, Null, b, 500, "Failed to create class"))
               ELSE Commit(logActivity(Insert("classes", classItem), auth.user, "create",
                                       "class", classItem.id, <<"Created class: ", b.name>>),
                           Reply("classes.post", h, classItem.id, b, 201, classItem))

\* the row written by the UPDATE of router.put('/:id')
ClassesMerge(existing, b) ==
    [existing EXCEPT
        !.name = OrS(b, "name", existing.name),
        !.description = Def(b, "description", existing.description),
        !.short_description = Def(b, "short_description", existing.short_description),
        !.image = Def(b, "image", existing.image),
        !.trainer_id = Def(b, "trainer_id", existing.trainer_id),
        !.schedule = Def(b, "schedule", existing.schedule),
        !.duration = Def(b, "duration", existing.duration),
        !.capacity = Def(b, "capacity", existing.capacity),
        !.price = Def(b, "price", existing.price),
        !.difficulty = Def(b, "difficulty", existing.difficulty),
        !.is_active = FlagDef(b, "is_active", existing.is_active),
        !.sort_order = Def(b, "sort_order", existing.sort_order)]

\* router.put('/:id')
ClassesPut(h, id, b) ==
    LET auth == authenticateToken(h) IN
    /\ IF auth.status # 200
       THEN Rejected(Reply("classes.put", h, id, b, auth.status, auth.error))
       ELSE IF ~Exists("classes", id)
       THEN Rejected(Reply("classes.put", h, id, b, 404, "Class not found"))
       ELSE LET existing == Row("classes", id)
                classItem == ClassesMerge(existing, b)
            IN IF ~TrainerFkOk(classItem.trainer_id)
               THEN Rejected(Reply("classes.put", h, id, b, 500, "Failed to update class"))
               ELSE Commit(logActivity(Update("classes", existing, classItem), auth.user,
                                       "update", "class", classItem.id,
                                       <<"Updated class: ", classItem.name>>),
                           Reply("classes.put", h, id, b, 200, classItem))

\* router.delete('/:id')
ClassesDelete(h, id) ==
    LET auth == authenticateToken(h) IN
    /\ IF auth.status # 200
       THEN Rejected(Reply("classes.delete", h, id, EmptyBody, auth.status, auth.error))
       ELSE IF ~Exists("classes", id)
       THEN Rejected(Reply("classes.delete", h, id, EmptyBody, 404, "Class not found"))
       ELSE LET classItem == Row("classes", id) IN
            Commit(logActivity([db EXCEPT !.classes = @ \ {classItem}], auth.user,
                               "delete", "class", classItem.id,
                               <<"Deleted class: ", classItem.name>>),
                   Reply("classes.delete", h, id, EmptyBody, 200,
                         "Class deleted successfully"))

(***************************************************************************)
(* Membership routes.  A features value in a body or in a response is a    *)
(* JavaScript array of strings (kind "array", items) or a string (kind     *)
(* "string"); the string with text = "json" is the JSON text of the array  *)
(* items, a string with another text is not JSON.  The features column is  *)
(* text: [text, items, q] with q = 0 is that string itself, with q = 1 it  *)
(* is the JSON string literal that quotes it.                              *)
(***************************************************************************)
\* JSON.stringify(items) of an array
JSON_stringify(items) == [text |-> "json", items |-> items, q |-> 0]

\* JSON.stringify(v) of an array or of a string
JSON_stringify_value(v) ==
    IF v.kind = "array" THEN JSON_stringify(v.items)
    ELSE [text |-> v.text, items |-> v.items, q |-> 1]

\* JSON.parse(s) throws on a string that is not JSON
JSON_parse_throws(s) == s.q = 0 /\ s.text # "json"

\* JSON.parse(s): the array of a JSON array text, the string of a JSON
\* string literal
JSON_parse(s) ==
    IF s.q = 0 THEN [kind |-> "array", items |-> s.items]
    ELSE [kind |-> "string", text |-> s.text, items |-> s.items]

\* Array.isArray(features) ? JSON.stringify(features) : features
FeaturesText(v) ==
    IF v.kind = "array" THEN JSON_stringify(v.items)
    ELSE [text |-> v.text, items |-> v.items, q |-> 0]

\* the empty string, which is falsy
EmptyText(s) == s.q = 0 /\ s.text = ""

\* plan.features ? JSON.parse(plan.features) : []
PlanOut(plan) ==
    [plan EXCEPT !.features = IF ~EmptyText(plan.features) THEN JSON_parse(plan.features)
                              ELSE [kind |-> "array", items |-> <<>>]]

PlanOutThrows(plan) == ~EmptyText(plan.features) /\ JSON_parse_throws(plan.features)

\* router.get('/')
MembershipList(h) ==
    LET plans == IF isAdmin(h) THEN db.membership_plans
                 ELSE {p \in db.membership_plans : p.is_active = 1}
    IN Read(IF \E p \in plans : PlanOutThrows(p)
            THEN Reply("membership.list", h, Null, EmptyBody, 500, "Failed to fetch plans")
            ELSE Reply("membership.list", h, Null, EmptyBody, 200,
                       {PlanOut(p) : p \in plans}))

\* router.get('/:id')
MembershipGet(h, id) ==
    Read(IF ~Exists("membership_plans", id)
         THEN Reply("membership.get", h, id, EmptyBody, 404, "Plan not found")
         ELSE IF PlanOutThrows(Row("membership_plans", id))
         THEN Reply("membership.get", h, id, EmptyBody, 500, "Failed to fetch plan")
         ELSE Reply("membership.get", h, id, EmptyBody, 200,
                    PlanOut(Row("membership_plans", id))))

\* router.post('/'): the INSERT is not undone when the JSON.parse after it throws
MembershipPost(h, b) ==
    LET auth == authenticateToken(h) IN
    /\ IF auth.status # 200
       THEN Rejected(Reply("membership.post", h, Null, b, auth.status, auth.error))
       ELSE IF MissingS(b, "name") \/ ~Has(b, "price")
       THEN Rejected(Reply("membership.post", h, Null, b, 400, "Name and price are required"))
       ELSE LET featuresJson == IF Has(b, "features") /\ b.features.kind = "array"
                                THEN JSON_stringify(b.features.items)
                                ELSE IF Has(b, "features") /\ b.features.text # ""
                                THEN FeaturesText(b.features)
                                ELSE JSON_stringify(<<>>)
                plan == [id |-> NextId("membership_plans"),
                         name |-> b.name,
                         price |-> b.price,
                         billing_period |-> OrS(b, "billing_period", "month"),
                         description |-> OrS(b, "description", ""),
                         features |-> featuresJson,
                         is_featured |-> Flag(b, "is_featured"),
                         is_active |-> FlagDef(b, "is_active", 1),
                         sort_order |-> OrN(b, "sort_order", 0),
                         created_at |-> now]
            IN IF JSON_parse_throws(plan.features)
               THEN Commit(Insert("membership_plans", plan),
                           Reply("membership.post", h, plan.id, b, 500, "Failed to create plan"))
               ELSE Commit(logActivity(Insert("membership_plans", plan), auth.user, "create",
                                       "membership_plan", plan.id,
                                       <<"Created plan: ", b.name>>),
                           Reply("membership.post", h, plan.id, b, 201,
                                 [plan EXCEPT !.features = JSON_parse(plan.features)]))

\* the row written by the UPDATE of router.put('/:id')
MembershipMerge(existing, b) ==
    [existing EXCEPT
        !.name = OrS(b, "name", existing.name),
        !.price = Def(b, "price", existing.price),
        !.billing_period = OrS(b, "billing_period", existing.billing_period),
        !.description = Def(b, "description", existing.description),
        !.features = IF Has(b, "features") THEN FeaturesText(b.features)
                     ELSE existing.features,
        !.is_featured = FlagDef(b, "is_featured", existing.is_featured),
        !.is_active = FlagDef(b, "is_active", existing.is_active),
        !.sort_order = Def(b, "sort_order", existing.sort_order)]

\* router.put('/:id'): the UPDATE is not undone when the JSON.parse after it throws
MembershipPut(h, id, b) ==
    LET auth == authenticateToken(h) IN
    /\ IF auth.status # 200
       THEN Rejected(Reply("membership.put", h, id, b, auth.status, auth.error))
       ELSE IF ~Exists("membership_plans", id)
       THEN Rejected(Reply("membership.put", h, id, b, 404, "Plan not found"))
       ELSE LET existing == Row("membership_plans", id)
                plan == MembershipMerge(existing, b)
            IN IF JSON_parse_throws(plan.features)
               THEN Commit(Update("membership_plans", existing, plan),
                           Reply("membership.put", h, id, b, 500, "Failed to update plan"))
               ELSE Commit(logActivity(Update("membership_plans", existing, plan),
                                       auth.user, "update", "membership_plan", plan.id,
                                       <<"Updated plan: ", plan.name>>),
                           Reply("membership.put", h, id, b, 200,
                                 [plan EXCEPT !.features = JSON_parse(plan.features)]))

\* membership_inquiries.plan_id REFERENCES membership_plans(id), no ON DELETE
PlanReferenced(id) == \E i \in db.membership_inquiries : i.plan_id = id

\* router.delete('/:id')
MembershipDelete(h, id) ==
    LET auth == authenticateToken(h) IN
    /\ IF auth.status # 200
       THEN Rejected(Reply("membership.delete", h, id, EmptyBody, auth.status, auth.error))
       ELSE IF ~Exists("membership_plans", id)
       THEN Rejected(Reply("membership.delete", h, id, EmptyBody, 404, "Plan not found"))
       ELSE IF PlanReferenced(id)
       THEN Rejected(Reply("membership.delete", h, id, EmptyBody, 500,
                           "Failed to delete plan"))
       ELSE LET plan == Row("membership_plans", id) IN
            Commit(logActivity([db EXCEPT !.membership_plans = @ \ {plan}], auth.user,
                               "delete", "membership_plan", plan.id,
                               <<"Deleted plan: ", plan.name>>),
                   Reply("membership.delete", h, id, EmptyBody, 200,
                         "Plan deleted successfully"))

\* router.post('/inquiry'), open to anonymous callers
MembershipInquiry(h, b) ==
    /\ IF MissingS(b, "name") \/ MissingS(b, "email")
       THEN Rejected(Reply("membership.inquiry", h, Null, b, 400, "Name and email are required"))
       ELSE LET inquiry == [id |-> NextId("membership_inquiries"),
                            name |-> b.name,
                            email |-> b.email,
                            phone |-> OrS(b, "phone", ""),
                            plan_id |-> OrN(b, "plan_id", Null),
                            message |-> OrS(b, "message", ""),
                            status |-> "new",
                            created_at |-> now]
            IN IF inquiry.plan_id # Null /\ ~Exists("membership_plans", inquiry.plan_id)
               THEN Rejected(Reply("membership.inquiry", h, Null, b, 500,
                                   "Failed to submit inquiry"))
               ELSE Commit(Insert("membership_inquiries", inquiry),
                           Reply("membership.inquiry", h, inquiry.id, b, 201,
                                 "Inquiry submitted successfully"))

(***************************************************************************)
(* Testimonials routes.                                                    *)
(***************************************************************************)
\* router.get('/')
TestimonialsList(h) ==
    Read(Reply("testimonials.list", h, Null, EmptyBody, 200,
               IF isAdmin(h) THEN db.testimonials
               ELSE {t \in db.testimonials : t.is_approved = 1}))

\* router.get('/:id')
TestimonialsGet(h, id) ==
    Read(IF ~Exists("testimonials", id)
         THEN Reply("testimonials.get", h, id, EmptyBody, 404, "Testimonial not found")
         ELSE Reply("testimonials.get", h, id, EmptyBody, 200, Row("testimonials", id)))

\* router.post('/')
TestimonialsPost(h, b) ==
    LET auth == authenticateToken(h) IN
    /\ IF auth.status # 200
       THEN Rejected(Reply("testimonials.post", h, Null, b, auth.status, auth.error))
       ELSE IF MissingS(b, "client_name") \/ MissingS(b, "content")
       THEN Rejected(Reply("testimonials.post", h, Null, b, 400,
                           "Client name and content are required"))
       ELSE LET testimonial == [id |-> NextId("testimonials"),
                                client_name |-> b.client_name,
                                client_photo |-> OrS(b, "client_photo", ""),
                                client_title |-> OrS(b, "client_title", ""),
                                content |-> b.content,
                                rating |-> OrN(b, "rating", 5),
                                is_approved |-> Flag(b, "is_approved"),
                                sort_order |-> OrN(b, "sort_order", 0),
                                created_at |-> now]
            IN Commit(logActivity(Insert("testimonials", testimonial), auth.user, "create",
                                  "testimonial", testimonial.id,
                                  <<"Created testimonial from: ", b.client_name>>),
                      Reply("testimonials.post", h, testimonial.id, b, 201, testimonial))

\* the row written by the UPDATE of router.put('/:id')
TestimonialsMerge(existing, b) ==
    [existing EXCEPT
        !.client_name = OrS(b, "client_name", existing.client_name),
        !.client_photo = Def(b, "client_photo", existing.client_photo),
        !.client_title = Def(b, "client_title", existing.client_title),
        !.content = Def(b, "content", existing.content),
        !.rating = Def(b, "rating", existing.rating),
        !.is_approved = FlagDef(b, "is_approved", existing.is_approved),
        !.sort_order = Def(b, "sort_order", existing.sort_order)]

\* router.put('/:id')
TestimonialsPut(h, id, b) ==
    LET auth == authenticateToken(h) IN
    /\ IF auth.status # 200
       THEN Rejected(Reply("testimonials.put", h, id, b, auth.status, auth.error))
       ELSE IF ~Exists("testimonials", id)
       THEN Rejected(Reply("testimonials.put", h, id, b, 404, "Testimonial not found"))
       ELSE LET existing == Row("testimonials", id)
                testimonial == TestimonialsMerge(existing, b)
            IN Commit(logActivity(Update("testimonials", existing, testimonial), auth.user,
                                  "update", "testimonial", testimonial.id,
                                  <<"Updated testimonial from: ", testimonial.client_name>>),
                      Reply("testimonials.put", h, id, b, 200, testimonial))

\* router.delete('/:id')
TestimonialsDelete(h, id) ==
    LET auth == authenticateToken(h) IN
    /\ IF auth.status # 200
       THEN Rejected(Reply("testimonials.delete", h, id, EmptyBody, auth.status, auth.error))
       ELSE IF ~Exists("testimonials", id)
       THEN Rejected(Reply("testimonials.delete", h, id, EmptyBody, 404,
                           "Testimonial not found"))
       ELSE LET testimonial == Row("testimonials", id) IN
            Commit(logActivity([db EXCEPT !.testimonials = @ \ {testimonial}], auth.user,
                               "delete", "testimonial", testimonial.id,
                               <<"Deleted testimonial from: ", testimonial.client_name>>),
                   Reply("testimonials.delete", h, id, EmptyBody, 200,
                         "Testimonial deleted successfully"))

(***************************************************************************)
(* Gallery routes.                                                         *)
(***************************************************************************)
\* COUNT(gi.id) of the LEFT JOIN in router.get('/albums')
image_count(album) == Cardinality({i \in db.gallery_images : i.album_id = album.id})

\* router.get('/albums')
AlbumsList(h) ==
    Read(Reply("albums.list", h, Null, EmptyBody, 200,
               {a @@ [image_count |-> image_count(a)] :
                    a \in {x \in db.gallery_albums : x.is_active = 1}}))

\* router.get('/albums/:id')
AlbumsGet(h, id) ==
    Read(IF ~Exists("gallery_albums", id)
         THEN Reply("albums.get", h, id, EmptyBody, 404, "Album not found")
         ELSE Reply("albums.get", h, id, EmptyBody, 200,
                    Row("gallery_albums", id)
                        @@ [images |-> {i \in db.gallery_images : i.album_id = id}]))

\* router.post('/albums'); is_active takes the column default 1
AlbumsPost(h, b) ==
    LET auth == authenticateToken(h) IN
    /\ IF auth.status # 200
       THEN Rejected(Reply("albums.post", h, Null, b, auth.status, auth.error))
       ELSE IF MissingS(b, "name")
       THEN Rejected(Reply("albums.post", h, Null, b, 400, "Album name is required"))
       ELSE LET album == [id |-> NextId("gallery_albums"),
                          name |-> b.name,
                          description |-> OrS(b, "description", ""),
                          cover_image |-> OrS(b, "cover_image", ""),
                          is_active |-> 1,
                          sort_order |-> OrN(b, "sort_order", 0),
                          created_at |-> now]
            IN Commit(logActivity(Insert("gallery_albums", album), auth.user, "create",
                                  "gallery_album", album.id, <<"Created album: ", b.name>>),
                      Reply("albums.post", h, album.id, b, 201, album))

\* the row written by the UPDATE of router.put('/albums/:id')
AlbumsMerge(existing, b) ==
    [existing EXCEPT
        !.name = OrS(b, "name", existing.name),
        !.description = Def(b, "description", existing.description),
        !.cover_image = Def(b, "cover_image", existing.cover_image),
        !.is_active = FlagDef(b, "is_active", existing.is_active),
        !.sort_order = Def(b, "sort_order", existing.sort_order)]

\* router.put('/albums/:id')
AlbumsPut(h, id, b) ==
    LET auth == authenticateToken(h) IN
    /\ IF auth.status # 200
       THEN Rejected(Reply("albums.put", h, id, b, auth.status, auth.error))
       ELSE IF ~Exists("gallery_albums", id)
       THEN Rejected(Reply("albums.put", h, id, b, 404, "Album not found"))
       ELSE LET existing == Row("gallery_albums", id)
                album == AlbumsMerge(existing, b)
            IN Commit(logActivity(Update("gallery_albums", existing, album), auth.user,
                                  "update", "gallery_album", album.id,
                                  <<"Updated album: ", album.name>>),
                      Reply("albums.put", h, id, b, 200, album))

\* a DELETE of the album row that leaves the images alone
DeleteAlbumOnly(album) == [db EXCEPT !.gallery_albums = @ \ {album}]

\* DELETE FROM gallery_albums WHERE id = ? under PRAGMA foreign_keys = ON and
\* gallery_images.album_id REFERENCES gallery_albums(id) ON DELETE CASCADE
DeleteAlbumCascade(album) ==
    [db EXCEPT !.gallery_albums = @ \ {album},
               !.gallery_images = {i \in @ : i.album_id # album.id}]

\* router.delete('/albums/:id')
AlbumsDelete(h, id) ==
    LET auth == authenticateToken(h) IN
    /\ IF auth.status # 200
       THEN Rejected(Reply("albums.delete", h, id, EmptyBody, auth.status, auth.error))
       ELSE IF ~Exists("gallery_albums", id)
       THEN Rejected(Reply("albums.delete", h, id, EmptyBody, 404, "Album not found"))
       ELSE LET album == Row("gallery_albums", id) IN
            Commit(logActivity(DeleteAlbumCascade(album), auth.user, "delete",
                               "gallery_album", album.id, <<"Deleted album: ", album.name>>),
                   Reply("albums.delete", h, id, EmptyBody, 200,
                         "Album deleted successfully"))

\* router.get('/images'); album_id = Null is the request without the filter
ImagesList(h, album_id) ==
    Read(Reply("images.list", h, album_id, EmptyBody, 200,
               IF album_id # Null
               THEN {i \in db.gallery_images : i.album_id = album_id}
               ELSE db.gallery_images))

\* the foreign key gallery_images.album_id REFERENCES gallery_albums(id)
AlbumFkOk(album_id) == album_id = Null \/ Exists("gallery_albums", album_id)

\* router.post('/images')
ImagesPost(h, b) ==
    LET auth == authenticateToken(h) IN
    /\ IF auth.status # 200
       THEN Rejected(Reply("images.post", h, Null, b, auth.status, auth.error))
       ELSE IF MissingS(b, "file_path")
       THEN Rejected(Reply("images.post", h, Null, b, 400, "File path is required"))
       ELSE LET image == [id |-> NextId("gallery_images"),
                          album_id |-> OrN(b, "album_id", Null),
                          file_path |-> b.file_path,
                          thumbnail_path |-> OrS(b, "thumbnail_path", ""),
                          caption |-> OrS(b, "caption", ""),
                          sort_order |-> OrN(b, "sort_order", 0),
                          created_at |-> now]
            IN IF ~AlbumFkOk(image.album_id)
               THEN Rejected(Reply("images.post", h, Null, b, 500, "Failed to add image"))
               ELSE Commit(logActivity(Insert("gallery_images", image), auth.user, "create",
                                       "gallery_image", image.id, <<"Added gallery image">>),
                           Reply("images.post", h, image.id, b, 201, image))

\* the row written by the UPDATE of router.put('/images/:id')
ImagesMerge(existing, b) ==
    [existing EXCEPT
        !.album_id = Def(b, "album_id", existing.album_id),
        !.caption = Def(b, "caption", existing.caption),
        !.sort_order = Def(b, "sort_order", existing.sort_order)]

\* router.put('/images/:id'); the handler does not call logActivity
ImagesPut(h, id, b) ==
    LET auth == authenticateToken(h) IN
    /\ IF auth.status # 200
       THEN Rejected(Reply("images.put", h, id, b, auth.status, auth.error))
       ELSE IF ~Exists("gallery_images", id)
       THEN Rejected(Reply("images.put", h, id, b, 404, "Image not found"))
       ELSE LET existing == Row("gallery_images", id)
                image == ImagesMerge(existing, b)
            IN IF ~AlbumFkOk(image.album_id)
               THEN Rejected(Reply("images.put", h, id, b, 500, "Failed to update image"))
               ELSE Commit(Update("gallery_images", existing, image),
                           Reply("images.put", h, id, b, 200, image))

\* router.delete('/images/:id')
ImagesDelete(h, id) ==
    LET auth == authenticateToken(h) IN
    /\ IF auth.status # 200
       THEN Rejected(Reply("images.delete", h, id, EmptyBody, auth.status, auth.error))
       ELSE IF ~Exists("gallery_images", id)
       THEN Rejected(Reply("images.delete", h, id, EmptyBody, 404, "Image not found"))
       ELSE LET image == Row("gallery_images", id) IN
            Commit(logActivity([db EXCEPT !.gallery_images = @ \ {image}], auth.user,
                               "delete", "gallery_image", image.id,
                               <<"Deleted gallery image">>),
                   Reply("images.delete", h, id, EmptyBody, 200,
                         "Image deleted successfully"))

(***************************************************************************)
(* Media routes.  An uploaded file is [ext, mimetype, size, originalname,  *)
(* sharp]; sharp tells how the image library fares on it: "ok",            *)
(* "fail_webp" (the first conversion throws) or "fail_thumb" (the          *)
(* thumbnail conversion throws).                                           *)
(* A path on disk is [dir, base, ext]; multer names a file by a fresh      *)
(* uuid, modelled by the number of the upload.                             *)
(***************************************************************************)
allowedTypes == {"image/png", "video/mp4"}

ImageExts == {".png"}

UploadPath(filename) == [dir |-> "uploads", base |-> filename.base, ext |-> filename.ext]

WebpPath(base) == [dir |-> "uploads/images", base |-> base, ext |-> ".webp"]

ThumbPath(base) == [dir |-> "uploads/thumbnails", base |-> base, ext |-> "_thumb.webp"]

\* null where a path is expected
NoPath == [dir |-> "", base |-> Null, ext |-> ""]

\* processImage: the paths it returns
processImage(file, filename) ==
    IF file.ext \in ImageExts /\ file.sharp = "ok"
    THEN [original |-> UploadPath(filename), webp |-> WebpPath(filename.base),
          thumbnail |-> ThumbPath(filename.base), width |-> 1, height |-> 1]
    ELSE [original |-> UploadPath(filename), webp |-> NoPath, thumbnail |-> NoPath,
          width |-> Null, height |-> Null]

\* processImage: the files it leaves on disk
processImageFiles(file, filename) ==
    IF file.ext \notin ImageExts \/ file.sharp = "fail_webp" THEN {}
    ELSE IF file.sharp = "fail_thumb" THEN {WebpPath(filename.base)}
    ELSE {WebpPath(filename.base), ThumbPath(filename.base)}

\* the loop of router.post('/') over req.files, from file k on
RECURSIVE UploadAll(_, _, _, _)
UploadAll(files, k, d, dk) ==
    IF k > Len(files) THEN [db |-> d, disk |-> dk]
    ELSE LET file == files[k]
             filename == [base |-> d.seq.media + 1, ext |-> file.ext]
             processed == processImage(file, filename)
             row == [id |-> d.seq.media + 1,
                     filename |-> filename,
                     original_name |-> file.originalname,
                     file_path |-> IF processed.webp # NoPath THEN processed.webp
                                   ELSE processed.original,
                     file_type |-> file.mimetype,
                     file_size |-> file.size,
                     width |-> processed.width,
                     height |-> processed.height,
                     alt_text |-> "",
                     created_at |-> now]
         IN UploadAll(files, k + 1, InsertIn(d, "media", row),
                      dk \cup {UploadPath(filename)} \cup processImageFiles(file, filename))

\* router.get('/'); type = "" is the request without the filter
MediaList(h, type) ==
    LET auth == authenticateToken(h) IN
    Read(IF auth.status # 200
         THEN Reply("media.list", h, Null, [type |-> type], auth.status, auth.error)
         ELSE Reply("media.list", h, Null, [type |-> type], 200,
                    IF type # "" THEN {m \in db.media : m.file_type = type}
                    ELSE db.media))

\* router.post('/') behind authenticateToken and upload.array('files', 10)
MediaPost(h, files) ==
    LET auth == authenticateToken(h) IN
    /\ IF auth.status # 200
       THEN Rejected(Reply("media.post", h, Null, [files |-> files], auth.status, auth.error))
       ELSE IF \E k \in 1..Len(files) : files[k].mimetype \notin allowedTypes
       THEN Rejected(Reply("media.post", h, Null, [files |-> files], 500,
                           "Invalid file type"))
       ELSE IF Len(files) = 0
       THEN Rejected(Reply("media.post", h, Null, [files |-> files], 400,
                           "No files uploaded"))
       ELSE LET done == UploadAll(files, 1, db, disk) IN
            /\ db.seq.media + Len(files) <= MaxUploads
            /\ db' = logActivity(done.db, auth.user, "upload", "media", Null,
                                 <<"Uploaded files: ", Len(files)>>)
            /\ disk' = done.disk
            /\ resp' = Reply("media.post", h, Null, [files |-> files], 201,
                             done.db.media \ db.media)
            /\ UNCHANGED <<now, ops, fn, boot, twin>>

\* router.put('/:id'); the handler does not call logActivity
MediaPut(h, id, b) ==
    LET auth == authenticateToken(h) IN
    /\ IF auth.status # 200
       THEN Rejected(Reply("media.put", h, id, b, auth.status, auth.error))
       ELSE IF ~Exists("media", id)
       THEN Rejected(Reply("media.put", h, id, b, 404, "Media not found"))
       ELSE LET existing == Row("media", id)
                row == [existing EXCEPT !.alt_text = OrS(b, "alt_text", "")]
            IN Commit(Update("media", existing, row),
                      Reply("media.put", h, id, b, 200, row))

\* a delete that removes the uploaded file only
filesToDeleteOriginal(media) == {UploadPath(media.filename)}

\* filesToDelete: the uploaded file and its two derived files
filesToDelete(media) ==
    {UploadPath(media.filename), WebpPath(media.filename.base),
     ThumbPath(media.filename.base)}

\* router.delete('/:id')
MediaDelete(h, id) ==
    LET auth == authenticateToken(h) IN
    /\ IF auth.status # 200
       THEN Rejected(Reply("media.delete", h, id, EmptyBody, auth.status, auth.error))
       ELSE IF ~Exists("media", id)
       THEN Rejected(Reply("media.delete", h, id, EmptyBody, 404, "Media not found"))
       ELSE LET row == Row("media", id)
            IN /\ ops > 0
               /\ disk' = disk \ filesToDelete(row)
               /\ db' = logActivity([db EXCEPT !.media = @ \ {row}], auth.user, "delete",
                                    "media", row.id,
                                    <<"Deleted media: ", row.original_name>>)
               /\ resp' = Reply("media.delete", h, id, EmptyBody, 200,
                                "Media deleted successfully")
               /\ ops' = ops - 1
               /\ UNCHANGED <<now, fn, boot, twin>>

(***************************************************************************)
(* Contact routes and the list of membership inquiries.                    *)
(***************************************************************************)
\* addresses a contact form sends: two that /^[^\s@]+@[^\s@]+\.[^\s@]+$/
\* matches and two that it does not (no dot after the @, no @)
ContactEmails == {"a@b.c", "info@powerhousegym.com", "a@b", "e"}

\* emailRegex.test(email)
emailRegex_test(email) == email \in {"a@b.c", "info@powerhousegym.com"}

\* contact router.post('/')
ContactPost(h, b) ==
    IF MissingS(b, "name") \/ MissingS(b, "email") \/ MissingS(b, "message")
    THEN Rejected(Reply("contact.post", h, Null, b, 400,
                        "Name, email, and message are required"))
    ELSE IF ~emailRegex_test(b.email)
    THEN Rejected(Reply("contact.post", h, Null, b, 400, "Invalid email address"))
    ELSE LET submission == [id |-> NextId("contact_submissions"),
                            name |-> b.name,
                            email |-> b.email,
                            phone |-> OrS(b, "phone", ""),
                            subject |-> OrS(b, "subject", ""),
                            message |-> b.message,
                            is_read |-> 0,
                            created_at |-> now]
         IN Commit(Insert("contact_submissions", submission),
                   Reply("contact.post", h, submission.id, b, 201,
                         "Message sent successfully! We will get back to you soon."))

\* contact router.get('/submissions'), without limit, offset and unread
ContactSubmissions(h) ==
    LET auth == authenticateToken(h) IN
    Read(IF auth.status # 200
         THEN Reply("contact.list", h, Null, EmptyBody, auth.status, auth.error)
         ELSE Reply("contact.list", h, Null, EmptyBody, 200,
                    [submissions |-> db.contact_submissions,
                     total |-> Cardinality(db.contact_submissions),
                     unread |-> Cardinality({c \in db.contact_submissions :
                                                c.is_read = 0})]))

\* contact router.get('/submissions/:id')
ContactGet(h, id) ==
    LET auth == authenticateToken(h) IN
    Read(IF auth.status # 200
         THEN Reply("contact.get", h, id, EmptyBody, auth.status, auth.error)
         ELSE IF ~Exists("contact_submissions", id)
         THEN Reply("contact.get", h, id, EmptyBody, 404, "Submission not found")
         ELSE Reply("contact.get", h, id, EmptyBody, 200, Row("contact_submissions", id)))

\* contact router.put('/submissions/:id/read'); the handler does not call
\* logActivity
ContactRead(h, id) ==
    LET auth == authenticateToken(h) IN
    IF auth.status # 200
    THEN Rejected(Reply("contact.read", h, id, EmptyBody, auth.status, auth.error))
    ELSE IF ~Exists("contact_submissions", id)
    THEN Rejected(Reply("contact.read", h, id, EmptyBody, 404, "Submission not found"))
    ELSE LET submission == Row("contact_submissions", id)
         IN Commit(Update("contact_submissions", submission,
                          [submission EXCEPT !.is_read = 1]),
                   Reply("contact.read", h, id, EmptyBody, 200, "Marked as read"))

\* contact router.delete('/submissions/:id')
ContactDelete(h, id) ==
    LET auth == authenticateToken(h) IN
    IF auth.status # 200
    THEN Rejected(Reply("contact.delete", h, id, EmptyBody, auth.status, auth.error))
    ELSE IF ~Exists("contact_submissions", id)
    THEN Rejected(Reply("contact.delete", h, id, EmptyBody, 404, "Submission not found"))
    ELSE LET submission == Row("contact_submissions", id)
         IN Commit(logActivity([db EXCEPT !.contact_submissions = @ \ {submission}],
                               auth.user, "delete", "contact_submission", submission.id,
                               <<"Deleted contact from: ", submission.name>>),
                   Reply("contact.delete", h, id, EmptyBody, 200,
                         "Submission deleted successfully"))

\* LEFT JOIN membership_plans mp ON mi.plan_id = mp.id
JoinPlan(mi) ==
    IF \E p \in db.membership_plans : p.id = mi.plan_id
    THEN [inquiry |-> mi,
          plan_name |-> (CHOOSE p \in db.membership_plans : p.id = mi.plan_id).name]
    ELSE [inquiry |-> mi, plan_name |-> ""]

\* membership router.get('/inquiries/all')
MembershipInquiries(h) ==
    LET auth == authenticateToken(h) IN
    Read(IF auth.status # 200
         THEN Reply("membership.inquiries", h, Null, EmptyBody, auth.status, auth.error)
         ELSE Reply("membership.inquiries", h, Null, EmptyBody, 200,
                    {JoinPlan(mi) : mi \in db.membership_inquiries}))

(***************************************************************************)
(* Authentication routes and the serverless login handler.  The awaits on  *)
(* bcrypt inside one handler are not interleaved with other requests.      *)
(***************************************************************************)
\* bcrypt.hash(password, 12): a digest, never the password itself (the salt
\* and bcrypt's cut after 72 bytes are left out)
bcrypt_hash(password) == [digest |-> password]

\* a compare that accepts every password
bcrypt_compareAny(password, hash) == TRUE

\* bcrypt.compare(password, hash)
bcrypt_compare(password, hash) == hash = bcrypt_hash(password)

AdminEmail == "admin@powerhousegym.com"

\* the admin's address typed with capitals
MixedCaseEmail == "Admin@PowerhouseGym.com"

\* an address that no row of users carries
UnknownEmail == "nobody@example.com"

\* email.toLowerCase()
toLowerCase(email) == IF email = MixedCaseEmail THEN AdminEmail ELSE email

\* process.env.ADMIN_PASSWORD || 'admin123'
defaultPassword == "admin123"

\* jwt.sign(..., { expiresIn: '24h' })
jwt_sign(user) == [sig |-> "good", userId |-> user.id, exp |-> now + TicksPerDay]

\* generateToken(user): jwt.sign(..., { expiresIn: '7d' })
generateToken(user) == [sig |-> "good", userId |-> user.id, exp |-> now + 7 * TicksPerDay]

\* the user object of a login response
UserSummary(user) ==
    [id |-> user.id, email |-> user.email, name |-> user.name, role |-> user.role]

\* UPDATE users SET last_login = CURRENT_TIMESTAMP WHERE id = ?
StampLogin(user) ==
    [db EXCEPT !.users = (@ \ {user}) \cup {[user EXCEPT !.last_login = <<now>>]}]

\* router.post('/login')
Login(b) ==
    IF MissingS(b, "email") \/ MissingS(b, "password")
    THEN Rejected(Reply("auth.login", NoHeader, Null, b, 400,
                        "Email and password are required"))
    ELSE IF ~(\E u \in db.users : u.email = toLowerCase(b.email))
    THEN Rejected(Reply("auth.login", NoHeader, Null, b, 401, "Invalid credentials"))
    ELSE LET user == CHOOSE u \in db.users : u.email = toLowerCase(b.email)
         IN IF ~bcrypt_compare(b.password, user.password_hash)
            THEN Rejected(Reply("auth.login", NoHeader, Null, b, 401,
                                "Invalid credentials"))
            ELSE Commit(logActivity(StampLogin(user), user.id, "login", "user",
                                    user.id, Null),
                        Reply("auth.login", NoHeader, Null, b, 200,
                              [token |-> jwt_sign(user), user |-> UserSummary(user)]))

\* the serverless login handler (POST)
LoginHandler(b) ==
    IF MissingS(b, "email") \/ MissingS(b, "password")
    THEN Rejected(Reply("fn.login", NoHeader, Null, b, 400,
                        "Email and password required"))
    ELSE IF ~(\E u \in db.users : u.email = b.email)
    THEN Rejected(Reply("fn.login", NoHeader, Null, b, 401, "Invalid credentials"))
    ELSE LET user == CHOOSE u \in db.users : u.email = b.email
         IN IF ~bcrypt_compare(b.password, user.password_hash)
            THEN Rejected(Reply("fn.login", NoHeader, Null, b, 401,
                                "Invalid credentials"))
            ELSE Commit(StampLogin(user),
                        Reply("fn.login", NoHeader, Null, b, 200,
                              [token |-> generateToken(user),
                               user |-> UserSummary(user)]))

\* a logout that also removes the user row of the caller
LogoutRemovesUser(h) ==
    LET auth == authenticateToken(h) IN
    IF auth.status # 200
    THEN Rejected(Reply("auth.logout", h, Null, EmptyBody, auth.status, auth.error))
    ELSE Commit(logActivity([db EXCEPT !.users = {u \in @ : u.id # auth.user}],
                            auth.user, "logout", "user", auth.user, Null),
                Reply("auth.logout", h, Null, EmptyBody, 200, "Logged out successfully"))

\* router.post('/logout')
Logout(h) ==
    LET auth == authenticateToken(h) IN
    IF auth.status # 200
    THEN Rejected(Reply("auth.logout", h, Null, EmptyBody, auth.status, auth.error))
    ELSE Commit(logActivity(db, auth.user, "logout", "user", auth.user, Null),
                Reply("auth.logout", h, Null, EmptyBody, 200, "Logged out successfully"))

\* router.get('/me')
Me(h) ==
    LET auth == authenticateToken(h) IN
    IF auth.status # 200
    THEN Read(Reply("auth.me", h, Null, EmptyBody, auth.status, auth.error))
    ELSE Read(Reply("auth.me", h, Null, EmptyBody, 200,
                    UserSummary(Row("users", auth.user))))

\* router.put('/password')
ChangePassword(h, b) ==
    LET auth == authenticateToken(h) IN
    IF auth.status # 200
    THEN Rejected(Reply("auth.password", h, Null, b, auth.status, auth.error))
    ELSE IF MissingS(b, "currentPassword") \/ MissingS(b, "newPassword")
    THEN Rejected(Reply("auth.password", h, Null, b, 400,
                        "Current and new password are required"))
    ELSE IF Len(b.newPassword) < 8
    THEN Rejected(Reply("auth.password", h, Null, b, 400,
                        "Password must be at least 8 characters"))
    ELSE LET user == Row("users", auth.user)
         IN IF ~bcrypt_compare(b.currentPassword, user.password_hash)
            THEN Rejected(Reply("auth.password", h, Null, b, 401,
                                "Current password is incorrect"))
            ELSE Commit(logActivity(
                            [db EXCEPT !.users = (@ \ {user}) \cup
                                {[user EXCEPT !.password_hash =
                                                  bcrypt_hash(b.newPassword)]}],
                            auth.user, "password_change", "user", auth.user, Null),
                        Reply("auth.password", h, Null, b, 200,
                              "Password updated successfully"))

(***************************************************************************)
(* Settings: the table is a function from key (UNIQUE) to value; the type  *)
(* column is 'string' in every row and the id column is never read, both   *)
(* are left out.  The state keeps the rows that differ from the rows of    *)
(* initDatabase (db.settings); the table is defaultSettings with those     *)
(* rows on top.  A request value is a JSON value, a stored value is SQL    *)
(* text or NULL.  A mapping is the sequence of the <<key, value>> entries  *)
(* of the request body, in the order of Object.entries.                    *)
(***************************************************************************)
\* the eighteen default settings of initDatabase
defaultSettings ==
    LET seed == <<
            <<"site_title", "PowerHouse Gym Chitwan">>,
            <<"site_tagline", "Transform Your Body, Transform Your Life">>,
            <<"site_description", "Premium fitness center in Chitwan offering world-class equipment and expert trainers.">>,
            <<"contact_email", "info@powerhousegym.com">>,
            <<"contact_phone", "+977-9800000000">>,
            <<"contact_address", "Narayangadh, Chitwan, Nepal">>,
            <<"social_facebook", "https://facebook.com/powerhousegymchitwan">>,
            <<"social_instagram", "https://instagram.com/powerhousegymchitwan">>,
            <<"social_youtube", "">>,
            <<"primary_color", "#ff4d4d">>,
            <<"secondary_color", "#1a1a2e">>,
            <<"accent_color", "#f9d342">>,
            <<"hero_title", "BUILD YOUR BODY &\nPUSH YOUR LIMITS">>,
            <<"hero_subtitle", "Join the best gym in Chitwan and achieve your fitness goals with expert trainers and premium equipment.">>,
            <<"hero_cta_text", "Start Your Journey">>,
            <<"hero_cta_link", "#membership">>,
            <<"footer_text", "(c) 2024 PowerHouse Gym Chitwan. All rights reserved.">>,
            <<"opening_hours", "Mon-Sat: 5:00 AM - 10:00 PM | Sun: 6:00 AM - 8:00 PM">> >>
    IN [k \in {seed[i][1] : i \in DOMAIN seed} |->
            (CHOOSE e \in {seed[i] : i \in DOMAIN seed} : e[1] = k)[2]]

\* the rows of the settings table, from the rows kept in the state
SettingsTable(delta) ==
    [k \in DOMAIN defaultSettings \cup DOMAIN delta |->
        IF k \in DOMAIN delta THEN delta[k] ELSE defaultSettings[k]]

\* the rows kept in the state, from the rows of the settings table
SettingsDelta(rows) ==
    [k \in {j \in DOMAIN rows : j \notin DOMAIN defaultSettings
                                  \/ rows[j] # defaultSettings[j]} |-> rows[k]]

Str(s) == [t |-> "string", s |-> s, n |-> 0, b |-> FALSE]

Num(n) == [t |-> "number", s |-> "", n |-> n, b |-> FALSE]

Bool(b) == [t |-> "boolean", s |-> "", n |-> 0, b |-> b]

JsNull == [t |-> "null", s |-> "", n |-> 0, b |-> FALSE]

\* a nested object sent as a value
JsObject == [t |-> "object", s |-> "", n |-> 0, b |-> FALSE]

\* SQL NULL in the value column (JSON null in a response): a mark that is
\* no text a request sends
SqlNull == "<NULL>"

\* String(value)
String(value) ==
    CASE value.t = "string" -> value.s
      [] value.t = "number" -> ToString(value.n)
      [] value.t = "boolean" -> (IF value.b THEN "true" ELSE "false")
      [] value.t = "null" -> "null"
      [] value.t = "object" -> "[object Object]"

\* a String that keeps the text of a string and blanks every other value
StringOfText(value) == IF value.t = "string" THEN value.s ELSE ""

\* what the libsql client binds for a value in args: a string as text, a
\* boolean as the integer 0 or 1, null as NULL (a number is not sent by the
\* requests of this model; an object is refused, see ArgThrows)
ArgToSql(value) ==
    CASE value.t = "string" -> value.s
      [] value.t = "boolean" -> (IF value.b THEN "1" ELSE "0")
      [] value.t = "null" -> SqlNull

\* the libsql client throws on a value that is no SQLite value
ArgThrows(value) == value.t = "object"

\* INSERT INTO settings (key, value, type) VALUES (?, ?, 'string')
\* ON CONFLICT(key) DO UPDATE SET value = excluded.value
Upsert(rows, key, value) ==
    IF key \in DOMAIN rows
    THEN [rows EXCEPT ![key] = value]
    ELSE [k \in DOMAIN rows \cup {key} |-> IF k = key THEN value ELSE rows[k]]

\* INSERT OR REPLACE INTO settings (key, value) VALUES (?, ?)
InsertOrReplace(rows, key, value) ==
    LET kept == [k \in DOMAIN rows \ {key} |-> rows[k]]
    IN [k \in DOMAIN kept \cup {key} |-> IF k = key THEN value ELSE kept[k]]

\* the loop of updateMany over the entries i, i+1, ... of the mapping
RECURSIVE updateMany(_, _, _)
updateMany(rows, settings, i) ==
    IF i > Len(settings) THEN rows
    ELSE updateMany(Upsert(rows, settings[i][1], String(settings[i][2])),
                    settings, i + 1)

\* settingsObj: the object built from the rows, key by key
settingsObj(rows) == [k \in DOMAIN rows |-> rows[k]]

\* settings router.get('/')
SettingsList ==
    Read(Reply("settings.list", NoHeader, Null, EmptyBody, 200, settingsObj(SettingsTable(db.settings))))

\* settings router.get('/:key')
SettingsGet(key) ==
    IF key \notin DOMAIN SettingsTable(db.settings)
    THEN Read(Reply("settings.get", NoHeader, key, EmptyBody, 404, "Setting not found"))
    ELSE Read(Reply("settings.get", NoHeader, key, EmptyBody, 200,
                    [key |-> key, value |-> SettingsTable(db.settings)[key]]))

\* settings router.put('/'): the body parsed by express.json() is always an
\* object, so the 400 branch is never taken
SettingsPutAll(h, updates) ==
    LET auth == authenticateToken(h) IN
    IF auth.status # 200
    THEN Rejected(Reply("settings.putAll", h, Null, updates, auth.status, auth.error))
    ELSE LET rows == updateMany(SettingsTable(db.settings), updates, 1)
         IN Commit(logActivity([db EXCEPT !.settings = SettingsDelta(rows)], auth.user, "update",
                               "settings", Null, <<"Updated settings: ", Len(updates)>>),
                   Reply("settings.putAll", h, Null, updates, 200, settingsObj(rows)))

\* settings router.put('/:key')
SettingsPut(h, key, b) ==
    LET auth == authenticateToken(h) IN
    IF auth.status # 200
    THEN Rejected(Reply("settings.put", h, key, b, auth.status, auth.error))
    ELSE IF ~Has(b, "value")
    THEN Rejected(Reply("settings.put", h, key, b, 400, "Value is required"))
    ELSE Commit(logActivity([db EXCEPT !.settings =
                                 SettingsDelta(Upsert(SettingsTable(@), key,
                                                      String(b.value)))],
                            auth.user, "update", "settings", Null,
                            <<"Updated setting: ", key>>),
                Reply("settings.put", h, key, b, 200,
                      [key |-> key, value |-> String(b.value)]))

\* LEFT JOIN users u ON al.user_id = u.id
JoinUser(al) ==
    IF \E u \in db.users : u.id = al.user_id
    THEN LET u == CHOOSE u \in db.users : u.id = al.user_id
         IN [log |-> al, user_name |-> u.name, user_email |-> u.email]
    ELSE [log |-> al, user_name |-> "", user_email |-> ""]

\* settings router.get('/activity/logs')
ActivityLogs(h) ==
    LET auth == authenticateToken(h) IN
    IF auth.status # 200
    THEN Read(Reply("settings.logs", h, Null, EmptyBody, auth.status, auth.error))
    ELSE Read(Reply("settings.logs", h, Null, EmptyBody, 200,
                    {JoinUser(db.activity_logs[i]) : i \in DOMAIN db.activity_logs}))

(***************************************************************************)
(* Serverless handlers.  Their statements are awaited one by one, so other *)
(* requests run between two statements of the settings update.             *)
(***************************************************************************)
\* authenticateToken(req) of the serverless deployment: the decoded token is
\* the user
authenticateToken_fn(h) ==
    LET token == HeaderToken(h) IN
    IF token = NoToken
    THEN [status |-> 401, error |-> "Access token required", user |-> Null]
    ELSE IF jwt_verify(token) # "ok"
    THEN [status |-> 403, error |-> "Invalid or expired token", user |-> Null]
    ELSE [status |-> 200, error |-> "", user |-> token.userId]

\* no settings update in flight (before: the rows of db.settings when the
\* update in flight was accepted, kept to state its properties)
Idle == [active |-> FALSE, h |-> NoHeader, updates |-> <<>>, i |-> 0, before |-> <<>>]

\* serverless settings handler, GET
SettingsHandlerGet ==
    /\ resp' = Reply("fn.settings.get", NoHeader, Null, EmptyBody, 200,
                     settingsObj(SettingsTable(db.settings)))
    /\ UNCHANGED <<db, now, ops, disk, fn, boot, twin>>

\* serverless settings handler, PUT: authentication, up to the loop
SettingsHandlerPut(h, updates) ==
    LET auth == authenticateToken_fn(h) IN
    /\ ~fn.active
    /\ IF auth.status # 200
       THEN /\ resp' = Reply("fn.settings.put", h, Null, updates, auth.status, auth.error)
            /\ UNCHANGED <<db, now, ops, disk, fn, boot, twin>>
       ELSE /\ ops > 0
            /\ ops' = ops - 1
            /\ fn' = [active |-> TRUE, h |-> h, updates |-> updates, i |-> 1,
                      before |-> db.settings]
            /\ UNCHANGED <<db, now, resp, disk, boot, twin>>

\* one turn of the loop: await db.execute(INSERT OR REPLACE ...), or the
\* response after the last entry, or the catch
SettingsHandlerPutStep ==
    /\ fn.active
    /\ IF fn.i > Len(fn.updates)
       THEN /\ resp' = Reply("fn.settings.put", fn.h, Null, fn.updates, 200,
                             "Settings updated")
            /\ fn' = Idle
            /\ UNCHANGED <<db, now, ops, disk, boot, twin>>
       ELSE LET key == fn.updates[fn.i][1]
                value == fn.updates[fn.i][2]
            IN IF ArgThrows(value)
               THEN /\ resp' = Reply("fn.settings.put", fn.h, Null, fn.updates, 500,
                                     "Failed to update settings")
                    /\ fn' = Idle
                    /\ UNCHANGED <<db, now, ops, disk, boot, twin>>
               ELSE /\ db' = [db EXCEPT !.settings =
                                  SettingsDelta(InsertOrReplace(SettingsTable(@), key,
                                                                ArgToSql(value)))]
                    /\ fn' = [fn EXCEPT !.i = @ + 1]
                    /\ UNCHANGED <<now, ops, resp, disk, boot, twin>>

\* serverless membership handler, GET
MembershipHandlerGet ==
    LET plans == {p \in db.membership_plans : p.is_active = 1}
    IN Read(IF \E p \in plans : PlanOutThrows(p)
            THEN Reply("fn.membership.get", NoHeader, Null, EmptyBody, 500,
                       "Failed to fetch plans")
            ELSE Reply("fn.membership.get", NoHeader, Null, EmptyBody, 200,
                       {PlanOut(p) : p \in plans}))

\* serverless membership handler, POST
MembershipHandlerPost(h, b) ==
    LET auth == authenticateToken_fn(h) IN
    IF auth.status # 200
    THEN Rejected(Reply("fn.membership.post", h, Null, b, auth.status, auth.error))
    ELSE IF MissingS(b, "name") \/ ~Has(b, "price")
    THEN Rejected(Reply("fn.membership.post", h, Null, b, 400, "Name and price required"))
    ELSE LET features == IF ~Has(b, "features")
                              \/ (b.features.kind = "string" /\ b.features.text = "")
                         THEN [kind |-> "array", items |-> <<>>]
                         ELSE b.features
             plan == [id |-> NextId("membership_plans"),
                      name |-> b.name,
                      price |-> b.price,
                      billing_period |-> OrS(b, "billing_period", "month"),
                      description |-> OrS(b, "description", ""),
                      features |-> JSON_stringify_value(features),
                      is_featured |-> Flag(b, "is_featured"),
                      is_active |-> 1,
                      sort_order |-> 0,
                      created_at |-> now]
         IN Commit(Insert("membership_plans", plan),
                   Reply("fn.membership.post", h, plan.id, b, 201,
                         [id |-> plan.id, message |-> "Plan created"]))

\* serverless trainers handler, GET
TrainersHandlerGet ==
    Read(Reply("fn.trainers.get", NoHeader, Null, EmptyBody, 200,
               {t \in db.trainers : t.is_active = 1}))

\* serverless trainers handler, POST: the columns the INSERT does not name
\* are NULL (sort_order: its default 0); the handler does not call logActivity
TrainersHandlerPost(h, b) ==
    LET auth == authenticateToken_fn(h) IN
    IF auth.status # 200
    THEN Rejected(Reply("fn.trainers.post", h, Null, b, auth.status, auth.error))
    ELSE IF MissingS(b, "name")
    THEN Rejected(Reply("fn.trainers.post", h, Null, b, 400, "Name is required"))
    ELSE LET trainer == [id |-> NextId("trainers"),
                         name |-> b.name,
                         specialty |-> OrS(b, "specialty", ""),
                         bio |-> OrS(b, "bio", ""),
                         photo |-> OrS(b, "photo", ""),
                         email |-> OrS(b, "email", ""),
                         phone |-> SqlNull,
                         social_facebook |-> SqlNull,
                         social_instagram |-> SqlNull,
                         social_twitter |-> SqlNull,
                         certifications |-> SqlNull,
                         is_active |-> IF Has(b, "is_active") /\ b.is_active = FALSE
                                       THEN 0 ELSE 1,
                         sort_order |-> 0,
                         created_at |-> now]
         IN Commit(Insert("trainers", trainer),
                   Reply("fn.trainers.post", h, trainer.id, b, 201,
                         [id |-> trainer.id, message |-> "Trainer created"]))

\* serverless testimonials handler, GET
TestimonialsHandlerGet ==
    Read(Reply("fn.testimonials.get", NoHeader, Null, EmptyBody, 200,
               {t \in db.testimonials : t.is_approved = 1}))

\* serverless testimonials handler, POST; the handler does not call
\* logActivity
TestimonialsHandlerPost(h, b) ==
    LET auth == authenticateToken_fn(h) IN
    IF auth.status # 200
    THEN Rejected(Reply("fn.testimonials.post", h, Null, b, auth.status, auth.error))
    ELSE IF MissingS(b, "client_name") \/ MissingS(b, "content")
    THEN Rejected(Reply("fn.testimonials.post", h, Null, b, 400,
                        "Client name and content required"))
    ELSE LET testimonial == [id |-> NextId("testimonials"),
                             client_name |-> b.client_name,
                             client_photo |-> OrS(b, "client_photo", ""),
                             client_title |-> OrS(b, "client_title", ""),
                             content |-> b.content,
                             rating |-> OrN(b, "rating", 5),
                             is_approved |-> Flag(b, "is_approved"),
                             sort_order |-> 0,
                             created_at |-> now]
         IN Commit(Insert("testimonials", testimonial),
                   Reply("fn.testimonials.post", h, testimonial.id, b, 201,
                         [id |-> testimonial.id, message |-> "Testimonial created"]))

\* serverless contact handler, POST: no test of the address
ContactHandlerPost(b) ==
    IF MissingS(b, "name") \/ MissingS(b, "email") \/ MissingS(b, "message")
    THEN Rejected(Reply("fn.contact.post", NoHeader, Null, b, 400,
                        "Name, email, and message are required"))
    ELSE LET submission == [id |-> NextId("contact_submissions"),
                            name |-> b.name,
                            email |-> b.email,
                            phone |-> OrS(b, "phone", ""),
                            subject |-> OrS(b, "subject", ""),
                            message |-> b.message,
                            is_read |-> 0,
                            created_at |-> now]
         IN Commit(Insert("contact_submissions", submission),
                   Reply("fn.contact.post", NoHeader, submission.id, b, 201,
                         "Message sent successfully"))

\* serverless contact handler, GET
ContactHandlerGet(h) ==
    LET auth == authenticateToken_fn(h) IN
    Read(IF auth.status # 200
         THEN Reply("fn.contact.get", h, Null, EmptyBody, auth.status, auth.error)
         ELSE Reply("fn.contact.get", h, Null, EmptyBody, 200,
                    [submissions |-> db.contact_submissions,
                     unread |-> Cardinality({c \in db.contact_submissions :
                                                c.is_read = 0})]))

(***************************************************************************)
(* Initial state: the database after initDatabase on an empty file.        *)
(***************************************************************************)
Tables == {"users", "pages", "blog_posts", "trainers", "classes", "membership_plans",
           "testimonials", "gallery_albums", "gallery_images", "media",
           "membership_inquiries", "contact_submissions"}

\* the three default plans of initDatabase
defaultPlans ==
    { [id |-> 1, name |-> "Basic", price |-> 2000, billing_period |-> "month",
       description |-> "Perfect for beginners",
       features |-> JSON_stringify(<<"Gym Access", "Locker Room", "Basic Equipment">>),
       is_featured |-> 0, is_active |-> 1, sort_order |-> 1, created_at |-> 0],
      [id |-> 2, name |-> "Premium", price |-> 3500, billing_period |-> "month",
       description |-> "Most popular choice",
       features |-> JSON_stringify(<<"Everything in Basic", "All Equipment Access",
                                      "Group Classes", "Fitness Assessment">>),
       is_featured |-> 1, is_active |-> 1, sort_order |-> 2, created_at |-> 0],
      [id |-> 3, name |-> "Elite", price |-> 5000, billing_period |-> "month",
       description |-> "For serious athletes",
       features |-> JSON_stringify(<<"Everything in Premium", "Personal Training (2x/month)",
                                      "Nutrition Consultation", "Priority Booking",
                                      "Guest Passes">>),
       is_featured |-> 0, is_active |-> 1, sort_order |-> 3, created_at |-> 0] }

\* the database after initDatabase on an empty file
InitialDb ==
    [users |-> {[id |-> AdminId, email |-> AdminEmail,
                 password_hash |-> bcrypt_hash(defaultPassword),
                 name |-> "Admin", role |-> "super_admin",
                 last_login |-> <<>>]},
     pages |-> {}, blog_posts |-> {}, trainers |-> {}, classes |-> {},
     membership_plans |-> defaultPlans,
     testimonials |-> {}, gallery_albums |-> {}, gallery_images |-> {},
     media |-> {}, membership_inquiries |-> {}, contact_submissions |-> {},
     settings |-> SettingsDelta(defaultSettings),
     activity_logs |-> <<>>,
     seq |-> [t \in Tables |-> IF t = "users" THEN 1
                                ELSE IF t = "membership_plans" THEN 3 ELSE 0]]

\* the requests of the serverless deployment that can be inside initDatabase
\* at the same time
Procs == {1, 2}

\* no request is inside initDatabase
NoBoot == [p \in Procs |-> [pc |-> "idle", i |-> 0]]

\* no second deployment is run
NoTwin == [phase |-> "router", store |-> <<>>, ops |-> 0, resp |-> <<>>]

\* the state after initDatabase at instant t0, with n writes to come
StartAt(n, t0) ==
    /\ db = InitialDb
    /\ now = t0
    /\ ops = n
    /\ resp = Reply("none", NoHeader, Null, EmptyBody, 0, "")
    /\ disk = {}
    /\ fn = Idle
    /\ boot = NoBoot
    /\ twin = NoTwin

\* the state after initDatabase, with n writes to come
Start(n) == StartAt(n, 0)

Init == Start(MaxOps)

(***************************************************************************)
(* Request inputs.                                                         *)
(***************************************************************************)
\* ids a request names: every id a behaviour can assign
Ids == 1..MaxOps

\* plan ids a request names: a seeded plan and the ids a behaviour can assign
PlanIds == {1} \cup {3 + k : k \in 1..MaxOps}

Slugs == {"a", "b"}

\* base, and base with flag f sent as true or as false
FlagBodies(base, f) == {base} \cup {base @@ (f :> v) : v \in BOOLEAN}

\* the two bodies that send nothing but flag f
FlagSet(f) == {f :> v : v \in BOOLEAN}

\* callers of the read endpoints
ReadHeaders == {NoHeader, AdminHeader}

(***************************************************************************)
(* SpecVis: creates, updates, deletes, lists and gets of the entities that *)
(* carry a visibility flag, with bodies that set the flag.                 *)
(***************************************************************************)
VisPageBodies == UNION {FlagBodies([title |-> "t", slug |-> s], "is_published") : s \in Slugs}

VisWrite ==
    \/ \E b \in VisPageBodies : PagesPost(AdminHeader, b)
    \/ \E id \in Ids, b \in FlagBodies(EmptyBody, "is_published") : PagesPut(AdminHeader, id, b)
    \/ \E id \in Ids : PagesDelete(AdminHeader, id)
    \/ \E b \in FlagBodies([name |-> "n"], "is_active") : TrainersPost(AdminHeader, b)
    \/ \E id \in Ids, b \in FlagBodies(EmptyBody, "is_active") : TrainersPut(AdminHeader, id, b)
    \/ \E id \in Ids : TrainersDelete(AdminHeader, id)
    \/ \E b \in FlagBodies([name |-> "n"], "is_active") : ClassesPost(AdminHeader, b)
    \/ \E id \in Ids, b \in FlagBodies(EmptyBody, "is_active") : ClassesPut(AdminHeader, id, b)
    \/ \E id \in Ids : ClassesDelete(AdminHeader, id)
    \/ \E b \in FlagBodies([name |-> "n", price |-> 5], "is_active") :
            MembershipPost(AdminHeader, b)
    \/ \E id \in PlanIds, b \in FlagBodies(EmptyBody, "is_active") :
            MembershipPut(AdminHeader, id, b)
    \/ \E id \in PlanIds : MembershipDelete(AdminHeader, id)
    \/ \E b \in FlagBodies([client_name |-> "n", content |-> "c"], "is_approved") :
            TestimonialsPost(AdminHeader, b)
    \/ \E id \in Ids, b \in FlagBodies(EmptyBody, "is_approved") :
            TestimonialsPut(AdminHeader, id, b)
    \/ \E id \in Ids : TestimonialsDelete(AdminHeader, id)
    \/ AlbumsPost(AdminHeader, [name |-> "n"])
    \/ \E id \in Ids, b \in FlagBodies(EmptyBody, "is_active") : AlbumsPut(AdminHeader, id, b)
    \/ \E id \in Ids : AlbumsDelete(AdminHeader, id)

VisRead ==
    \E h \in ReadHeaders :
        \/ PagesList(h)
        \/ \E s \in Slugs : PagesGet(h, s)
        \/ TrainersList(h)
        \/ \E id \in Ids : TrainersGet(h, id)
        \/ ClassesList(h)
        \/ \E id \in Ids : ClassesGet(h, id)
        \/ MembershipList(h)
        \/ \E id \in PlanIds : MembershipGet(h, id)
        \/ TestimonialsList(h)
        \/ \E id \in Ids : TestimonialsGet(h, id)
        \/ AlbumsList(h)
        \/ \E id \in Ids : AlbumsGet(h, id)

NextVis == VisWrite \/ VisRead

SpecVis == Init /\ [][NextVis]_vars

(***************************************************************************)
(* Visibility of albums and of single-item reads, under SpecVis.           *)
(***************************************************************************)
\* C2: the albums list follows the rule of the other is_active entities: a
\* caller without a bearer token receives exactly the albums whose
\* is_active is 1, and an authenticated caller receives every album,
\* including those whose is_active is 0.
C2_AlbumListVisibility ==
    resp.op = "albums.list" =>
        /\ resp.status = 200
        /\ resp.h = NoHeader =>
                {a.id : a \in resp.out} = {a.id : a \in {x \in db.gallery_albums : x.is_active = 1}}
        /\ resp.h = AdminHeader =>
                {a.id : a \in resp.out} = {a.id : a \in db.gallery_albums}

\* the get request, the table and the flag column of an entity
GetTable ==
    [pages_get |-> <<"pages.get", "pages", "is_published">>,
     trainers_get |-> <<"trainers.get", "trainers", "is_active">>,
     classes_get |-> <<"classes.get", "classes", "is_active">>,
     membership_get |-> <<"membership.get", "membership_plans", "is_active">>,
     testimonials_get |-> <<"testimonials.get", "testimonials", "is_approved">>,
     albums_get |-> <<"albums.get", "gallery_albums", "is_active">>]

\* row r is the one the last get request named
Named(t, r) == IF t = "pages" THEN r.slug = resp.b.slug ELSE r.id = resp.id

\* C3: a get answered to a caller without a bearer token returns the row
\* exactly when the unauthenticated list of the entity contains it (its
\* flag is 1); a stored row whose flag is 0 is answered with 404.
C3_GetVisibility ==
    \A k \in DOMAIN GetTable :
        LET op == GetTable[k][1]
            t == GetTable[k][2]
            flag == GetTable[k][3]
        IN (resp.op = op /\ resp.h = NoHeader) =>
                /\ resp.status = 200 <=> \E r \in db[t] : Named(t, r) /\ r[flag] = 1
                /\ (\E r \in db[t] : Named(t, r) /\ r[flag] = 0) => resp.status = 404

(***************************************************************************)
(* SpecList: the writes of SpecVis on the five entities whose list         *)
(* endpoint looks at the Authorization header, and those list endpoints.   *)
(***************************************************************************)
ListWrite ==
    \/ \E b \in VisPageBodies : PagesPost(AdminHeader, b)
    \/ \E id \in Ids, b \in FlagSet("is_published") : PagesPut(AdminHeader, id, b)
    \/ \E id \in Ids : PagesDelete(AdminHeader, id)
    \/ \E b \in FlagBodies([name |-> "n"], "is_active") : TrainersPost(AdminHeader, b)
    \/ \E id \in Ids, b \in FlagSet("is_active") : TrainersPut(AdminHeader, id, b)
    \/ \E id \in Ids : TrainersDelete(AdminHeader, id)
    \/ \E b \in FlagBodies([name |-> "n"], "is_active") : ClassesPost(AdminHeader, b)
    \/ \E id \in Ids, b \in FlagSet("is_active") : ClassesPut(AdminHeader, id, b)
    \/ \E id \in Ids : ClassesDelete(AdminHeader, id)
    \/ \E b \in FlagBodies([name |-> "n", price |-> 5], "is_active") :
            MembershipPost(AdminHeader, b)
    \/ \E id \in PlanIds, b \in FlagSet("is_active") :
            MembershipPut(AdminHeader, id, b)
    \/ \E id \in PlanIds : MembershipDelete(AdminHeader, id)
    \/ \E b \in FlagBodies([client_name |-> "n", content |-> "c"], "is_approved") :
            TestimonialsPost(AdminHeader, b)
    \/ \E id \in Ids, b \in FlagSet("is_approved") :
            TestimonialsPut(AdminHeader, id, b)
    \/ \E id \in Ids : TestimonialsDelete(AdminHeader, id)

ListRead ==
    \E h \in ReadHeaders :
        \/ PagesList(h)
        \/ TrainersList(h)
        \/ ClassesList(h)
        \/ MembershipList(h)
        \/ TestimonialsList(h)

NextList == ListWrite \/ ListRead

SpecList == Init /\ [][NextList]_vars

(***************************************************************************)
(* List visibility of the five entities of SpecList.                       *)
(***************************************************************************)
\* the table a list request reads and the flag column it filters on
ListedTable ==
    [pages_list |-> <<"pages.list", "pages", "is_published">>,
     trainers_list |-> <<"trainers.list", "trainers", "is_active">>,
     classes_list |-> <<"classes.list", "classes", "is_active">>,
     membership_list |-> <<"membership.list", "membership_plans", "is_active">>,
     testimonials_list |-> <<"testimonials.list", "testimonials", "is_approved">>]

\* the rows of table t as a list response carries them
Listed(t, rows) ==
    IF t = "membership_plans" THEN {PlanOut(p) : p \in rows} ELSE rows

ShortHeader == Header("Bearer", "good", AdminId, 2)

BlogHeaders == {NoHeader, AdminHeader, GarbageHeader, ShortHeader, GhostHeader}

\* publish dates a body carries: an ISO string and an SQL-form string
BlogDates == {toISOString(1), [fmt |-> "sql", t |-> 2]}

BlogStatuses == {"draft", "published"}

\* a draft without a date, and a published post with either date
BlogBodies ==
    {[title |-> "t", slug |-> s, status |-> "draft"] : s \in Slugs}
    \cup {[title |-> "t", slug |-> s, status |-> "published", publish_date |-> d] :
                s \in Slugs, d \in BlogDates}

BlogPutBodies ==
    {[status |-> st] : st \in BlogStatuses} \cup {[publish_date |-> toISOString(1)]}

BlogWrite ==
    \/ \E b \in BlogBodies : BlogPost(AdminHeader, b)
    \/ \E id \in Ids, b \in BlogPutBodies : BlogPut(AdminHeader, id, b)
    \/ \E id \in Ids : BlogDelete(AdminHeader, id)

BlogRead ==
    \E h \in BlogHeaders :
        \/ BlogList(h, "")
        \/ \E s \in Slugs : BlogGet(h, s)

NextBlog == BlogWrite \/ BlogRead \/ Tick

SpecBlog == Init /\ [][NextBlog]_vars

\* header h carries a token that verifies now and names a stored user
Verified(h) ==
    /\ h.token.sig = "good"
    /\ now < h.token.exp
    /\ \E u \in db.users : u.id = h.token.userId

\* a post that the public must not see now
Unpublished(p) == p.status # "published" \/ p.publish_date.t > now

\* C4: a caller without a token that verifies and resolves to a stored user
\* never receives, from the blog list or the blog get, a post whose status
\* is not 'published' or whose publish_date is later than now (the get
\* answers 404 for it); a caller whose token verifies and resolves to a
\* stored user receives every post.  Stated of the response at the instant
\* it is given.
C4_BlogVisibility ==
    resp.at = now =>
        /\ resp.op = "blog.list" =>
                /\ resp.status = 200
                /\ resp.out \subseteq db.blog_posts
                /\ ~Verified(resp.h) => \A p \in resp.out : ~Unpublished(p)
                /\ Verified(resp.h) => resp.out = db.blog_posts
        /\ resp.op = "blog.get" =>
                \A p \in db.blog_posts :
                    p.slug = resp.b.slug =>
                        /\ (~Verified(resp.h) /\ Unpublished(p)) => resp.status = 404
                        /\ resp.status = 200 => resp.out = p
                        /\ Verified(resp.h) => resp.status = 200

\* the public list has just been answered with a post while another post
\* is held back
C4_Witness_List ==
    /\ resp.op = "blog.list"
    /\ resp.at = now
    /\ ~Verified(resp.h)
    /\ resp.out # {}
    /\ \E p \in db.blog_posts : Unpublished(p)

(***************************************************************************)
(* SpecSlug: creates, updates and deletes of the two slug-bearing          *)
(* entities, with slugs that collide.                                      *)
(***************************************************************************)
SlugBodies == {[title |-> "t", slug |-> s] : s \in Slugs}

SlugPutBodies == {[slug |-> s] : s \in Slugs} \cup {[title |-> "u"]}

SlugWrite ==
    \/ \E b \in SlugBodies : PagesPost(AdminHeader, b)
    \/ \E id \in Ids, b \in SlugPutBodies : PagesPut(AdminHeader, id, b)
    \/ \E id \in Ids : PagesDelete(AdminHeader, id)
    \/ \E b \in SlugBodies : BlogPost(AdminHeader, b)
    \/ \E id \in Ids, b \in SlugPutBodies : BlogPut(AdminHeader, id, b)
    \/ \E id \in Ids : BlogDelete(AdminHeader, id)

SlugRead ==
    \E h \in ReadHeaders, s \in Slugs : PagesGet(h, s) \/ BlogGet(h, s)

NextSlug == SlugWrite \/ SlugRead

SpecSlug == Init /\ [][NextSlug]_vars

\* the table a create or update request of a slug-bearing entity writes
SlugTable == [pages |-> "pages", blog |-> "blog_posts"]

\* no two rows of a slug-bearing table share a slug
SlugsUnique ==
    \A k \in DOMAIN SlugTable :
        \A p, q \in db[SlugTable[k]] : p.slug = q.slug => p = q

\* a step that answers a create whose slug a stored row holds answers 400
\* 'Slug already exists' and leaves every table and the journal as they were
CreateConflict ==
    \A k \in DOMAIN SlugTable :
        (/\ resp'.op = IF k = "pages" THEN "pages.post" ELSE "blog.post"
         /\ resp'.h = AdminHeader
         /\ \E p \in db[SlugTable[k]] : p.slug = resp'.b.slug)
        => /\ resp'.status = 400
           /\ resp'.out = "Slug already exists"
           /\ db' = db

\* C5: for Page and BlogPost, a create whose slug equals the slug of a
\* stored row of the same entity is rejected with Conflict (400 'Slug
\* already exists'), inserts no row and appends no journal row; and in
\* every reachable state no two Page rows and no two BlogPost rows share a
\* slug.
C5_SlugCreate == [][CreateConflict]_vars /\ []SlugsUnique

\* a create has just been rejected for its slug while the row that holds
\* the slug is stored
C5_Witness_Conflict ==
    /\ resp.op = "blog.post"
    /\ resp.status = 400
    /\ resp.out = "Slug already exists"
    /\ \E p \in db.blog_posts : p.slug = resp.b.slug
    /\ Len(db.activity_logs) = 1

\* a step that answers an update of a stored row: with the slug of another
\* row it answers 400 and changes nothing; with the row's own slug it
\* answers 200 and the row keeps the slug
UpdateConflict ==
    \A k \in DOMAIN SlugTable :
        LET t == SlugTable[k] IN
        (/\ resp'.op = IF k = "pages" THEN "pages.put" ELSE "blog.put"
         /\ resp'.h = AdminHeader
         /\ "slug" \in DOMAIN resp'.b
         /\ \E r \in db[t] : r.id = resp'.id)
        => LET row == CHOOSE r \in db[t] : r.id = resp'.id IN
           /\ (\E o \in db[t] : o.id # row.id /\ o.slug = resp'.b.slug)
                => /\ resp'.status = 400
                   /\ resp'.out = "Slug already exists"
                   /\ db' = db
           /\ resp'.b.slug = row.slug
                => /\ resp'.status = 200
                   /\ \E n \in db'[t] : n.id = row.id /\ n.slug = row.slug
                   /\ Len(db'.activity_logs) = Len(db.activity_logs) + 1

\* C6: for Page and BlogPost, an update that supplies a slug held by a
\* different row is rejected with Conflict (400 'Slug already exists') and
\* leaves every row and the journal unchanged; an update that supplies the
\* row's own current slug succeeds and the row keeps that slug.
C6_SlugUpdate == [][UpdateConflict]_vars

\* an update has just been rejected for a slug that another row holds
C6_Witness_Conflict ==
    /\ resp.op = "pages.put"
    /\ resp.status = 400
    /\ resp.out = "Slug already exists"
    /\ \E r, o \in db.pages : r.id = resp.id /\ o.id # r.id /\ o.slug = resp.b.slug

(***************************************************************************)
(* SpecUpdate: a row of every entity that has an update, created with a    *)
(* value in every field, and updates that send no field or one field.      *)
(***************************************************************************)
FullPage ==
    [title |-> "v", slug |-> "a", content |-> "v", meta_title |-> "v",
     meta_description |-> "v", meta_keywords |-> "v", is_published |-> TRUE]

FullPost ==
    [title |-> "v", slug |-> "a", excerpt |-> "v", content |-> "v", featured_image |-> "v",
     category |-> "v", tags |-> "v", status |-> "published",
     publish_date |-> [fmt |-> "sql", t |-> 1]]

FullTrainer ==
    [name |-> "v", specialty |-> "v", bio |-> "v", photo |-> "v", email |-> "v",
     phone |-> "v", social_facebook |-> "v", social_instagram |-> "v",
     social_twitter |-> "v", certifications |-> "v", is_active |-> TRUE, sort_order |-> 3]

FullClass ==
    [name |-> "v", description |-> "v", short_description |-> "v", image |-> "v",
     schedule |-> "v", duration |-> 45, capacity |-> 10, price |-> 9,
     difficulty |-> "v", is_active |-> TRUE, sort_order |-> 3]

FullPlan ==
    [name |-> "v", price |-> 5, billing_period |-> "v", description |-> "v",
     features |-> [kind |-> "array", items |-> <<"v">>], is_featured |-> TRUE,
     is_active |-> TRUE, sort_order |-> 3]

FullTestimonial ==
    [client_name |-> "v", client_photo |-> "v", client_title |-> "v", content |-> "v",
     rating |-> 4, is_approved |-> TRUE, sort_order |-> 3]

FullAlbum == [name |-> "v", description |-> "v", cover_image |-> "v", sort_order |-> 3]

FullImage == [file_path |-> "v", thumbnail_path |-> "v", caption |-> "v", sort_order |-> 3]

PngFile ==
    [ext |-> ".png", mimetype |-> "image/png", size |-> 1, sharp |-> "ok",
     originalname |-> "v"]

\* the values sent for a field of each kind: text, number, flag, date,
\* reference and feature list
FieldValues ==
    [T |-> {"", "x"}, N |-> {0, 7}, B |-> BOOLEAN,
     D |-> {EmptyDate, [fmt |-> "sql", t |-> 2]}, R |-> {Null},
     F |-> {[kind |-> "array", items |-> <<>>], [kind |-> "array", items |-> <<"x">>]}]

\* the updatable fields of each entity and their kinds
UpdatableFields ==
    [pages |-> [title |-> "T", slug |-> "T", content |-> "T", meta_title |-> "T",
                meta_description |-> "T", meta_keywords |-> "T", is_published |-> "B"],
     blog_posts |-> [title |-> "T", slug |-> "T", excerpt |-> "T", content |-> "T",
                     featured_image |-> "T", category |-> "T", tags |-> "T",
                     status |-> "T", publish_date |-> "D"],
     trainers |-> [name |-> "T", specialty |-> "T", bio |-> "T", photo |-> "T",
                   email |-> "T", phone |-> "T", social_facebook |-> "T",
                   social_instagram |-> "T", social_twitter |-> "T",
                   certifications |-> "T", is_active |-> "B", sort_order |-> "N"],
     classes |-> [name |-> "T", description |-> "T", short_description |-> "T",
                  image |-> "T", trainer_id |-> "R", schedule |-> "T", duration |-> "N",
                  capacity |-> "N", price |-> "N", difficulty |-> "T",
                  is_active |-> "B", sort_order |-> "N"],
     membership_plans |-> [name |-> "T", price |-> "N", billing_period |-> "T",
                           description |-> "T", features |-> "F", is_featured |-> "B",
                           is_active |-> "B", sort_order |-> "N"],
     testimonials |-> [client_name |-> "T", client_photo |-> "T", client_title |-> "T",
                       content |-> "T", rating |-> "N", is_approved |-> "B",
                       sort_order |-> "N"],
     gallery_albums |-> [name |-> "T", description |-> "T", cover_image |-> "T",
                         is_active |-> "B", sort_order |-> "N"],
     gallery_images |-> [album_id |-> "R", caption |-> "T", sort_order |-> "N"],
     media |-> [alt_text |-> "T"]]

\* the bodies that send no field or exactly one field of table t
UpdateBodies(t) ==
    {EmptyBody} \cup
    UNION {{f :> v : v \in FieldValues[UpdatableFields[t][f]]} :
                f \in DOMAIN UpdatableFields[t]}

\* the ids an update names: the first row of a table
UpdateIds == {1}

FieldCreate ==
    \/ PagesPost(AdminHeader, FullPage)
    \/ BlogPost(AdminHeader, FullPost)
    \/ TrainersPost(AdminHeader, FullTrainer)
    \/ ClassesPost(AdminHeader, FullClass)
    \/ MembershipPost(AdminHeader, FullPlan)
    \/ TestimonialsPost(AdminHeader, FullTestimonial)
    \/ AlbumsPost(AdminHeader, FullAlbum)

FieldPut ==
    \E id \in UpdateIds :
        \/ \E b \in UpdateBodies("pages") : PagesPut(AdminHeader, id, b)
        \/ \E b \in UpdateBodies("blog_posts") : BlogPut(AdminHeader, id, b)
        \/ \E b \in UpdateBodies("trainers") : TrainersPut(AdminHeader, id, b)
        \/ \E b \in UpdateBodies("classes") : ClassesPut(AdminHeader, id, b)
        \/ \E b \in UpdateBodies("membership_plans") : MembershipPut(AdminHeader, id, b)
        \/ \E b \in UpdateBodies("testimonials") : TestimonialsPut(AdminHeader, id, b)
        \/ \E b \in UpdateBodies("gallery_albums") : AlbumsPut(AdminHeader, id, b)

NextField == FieldCreate \/ FieldPut

\* SpecField: the seven entities with a field merge, one field per update
SpecField == Init /\ [][NextField]_vars

\* the bodies of an update of table t that sends nothing, after one that
\* gave its first field a value
EmptyBodies(t) ==
    {EmptyBody} \cup
    {f :> "x" : f \in {g \in DOMAIN UpdatableFields[t] : UpdatableFields[t][g] = "T"}}

EmptyCreate ==
    \/ FieldCreate
    \/ ImagesPost(AdminHeader, FullImage)
    \/ MediaPost(AdminHeader, <<PngFile>>)

EmptyPut ==
    \E id \in UpdateIds :
        \/ PagesPut(AdminHeader, id, EmptyBody)
        \/ BlogPut(AdminHeader, id, EmptyBody)
        \/ TrainersPut(AdminHeader, id, EmptyBody)
        \/ ClassesPut(AdminHeader, id, EmptyBody)
        \/ MembershipPut(AdminHeader, id, EmptyBody)
        \/ TestimonialsPut(AdminHeader, id, EmptyBody)
        \/ AlbumsPut(AdminHeader, id, EmptyBody)
        \/ \E b \in EmptyBodies("gallery_images") : ImagesPut(AdminHeader, id, b)
        \/ \E b \in EmptyBodies("media") : MediaPut(AdminHeader, id, b)

NextEmpty == EmptyCreate \/ EmptyPut

\* SpecEmpty: the nine entities with an update, and updates that send no
\* field
SpecEmpty == Init /\ [][NextEmpty]_vars

(***************************************************************************)
(* Partial updates.                                                        *)
(***************************************************************************)
\* the update request of each table
UpdateOp ==
    [pages |-> "pages.put", blog_posts |-> "blog.put", trainers |-> "trainers.put",
     classes |-> "classes.put", membership_plans |-> "membership.put",
     testimonials |-> "testimonials.put", gallery_albums |-> "albums.put",
     gallery_images |-> "images.put", media |-> "media.put"]

\* the content fields of row r: every column but the modification stamp
Content(r) == DOMAIN r \ {"updated_at"}

\* the step answers an update by the administrator of a stored row of t
UpdatesRow(t) ==
    /\ resp'.op = UpdateOp[t]
    /\ resp'.h = AdminHeader
    /\ \E r \in db[t] : r.id = resp'.id

\* what the column of kind k holds after value v was stored in it
Stored(k, v) ==
    IF k = "B" THEN (IF v THEN 1 ELSE 0)
    ELSE IF k = "F" THEN JSON_stringify(v.items)
    ELSE v

\* C7: for each of the nine entities with an update, update(id, {}) on a
\* stored row succeeds and leaves every content field of the row at its
\* stored value.
C7_EmptyUpdate ==
    [][\A t \in DOMAIN UpdateOp :
            (UpdatesRow(t) /\ resp'.b = EmptyBody) =>
                LET old == CHOOSE r \in db[t] : r.id = resp'.id IN
                /\ resp'.status = 200
                /\ \E new \in db'[t] :
                        /\ new.id = old.id
                        /\ \A f \in Content(old) : new[f] = old[f]]_vars

\* C8: for the seven entities with a field merge, update(id, {f: X}) on a
\* stored row succeeds, stores X in f (a flag as 0 or 1, a feature list in
\* its serialised form) and leaves every other content field unchanged,
\* whatever X is, the empty string, 0 and false included.
C8_FieldUpdate ==
    [][\A t \in DOMAIN UpdateOp \ {"gallery_images", "media"} :
            \A f \in DOMAIN UpdatableFields[t] :
                (UpdatesRow(t) /\ DOMAIN resp'.b = {f}) =>
                    LET old == CHOOSE r \in db[t] : r.id = resp'.id
                        X == resp'.b[f]
                    IN /\ resp'.status = 200
                       /\ \E new \in db'[t] :
                            /\ new.id = old.id
                            /\ new[f] = Stored(UpdatableFields[t][f], X)
                            /\ \A g \in Content(old) \ {f} : new[g] = old[g]]_vars

(***************************************************************************)
(* SpecRef: albums with their images and trainers with their classes: the  *)
(* rows that reference another row, and the deletes of the referenced row. *)
(***************************************************************************)
RefImageBodies ==
    {[file_path |-> "p"]} \cup {[file_path |-> "p", album_id |-> a] : a \in 1..2}

RefClassBodies == {[name |-> "n"], [name |-> "n", trainer_id |-> 1]}

RefGallery ==
    \/ AlbumsPost(AdminHeader, [name |-> "n"])
    \/ \E b \in RefImageBodies : ImagesPost(AdminHeader, b)
    \/ \E id \in 1..2 : AlbumsDelete(AdminHeader, id)

RefTrainers ==
    \/ TrainersPost(AdminHeader, [name |-> "n"])
    \/ \E b \in RefClassBodies : ClassesPost(AdminHeader, b)

NextRef == RefGallery \/ RefTrainers

InitRef == Start(MaxRefOps)

SpecRef == InitRef /\ [][NextRef]_vars

\* the journal after the step is the journal before it plus n rows
JournalGrows(n) ==
    /\ Len(db'.activity_logs) = Len(db.activity_logs) + n
    /\ SubSeq(db'.activity_logs, 1, Len(db.activity_logs)) = db.activity_logs

\* C9: a successful delete of album A removes the album and exactly the
\* images whose album_id is A: afterwards no image references A, and the
\* images of other albums, the images without album and the rows of every
\* other table are as before (the journal gains the row of the delete).
C9_AlbumCascade ==
    [][(/\ resp'.op = "albums.delete"
        /\ resp'.h = AdminHeader
        /\ \E a \in db.gallery_albums : a.id = resp'.id)
       => /\ resp'.status = 200
          /\ db'.gallery_albums = {a \in db.gallery_albums : a.id # resp'.id}
          /\ db'.gallery_images = {i \in db.gallery_images : i.album_id # resp'.id}
          /\ \A i \in db'.gallery_images : i.album_id # resp'.id
          /\ \A t \in Tables \ {"gallery_albums", "gallery_images"} : db'[t] = db[t]
          /\ JournalGrows(1)]_vars

\* an album has just been deleted together with an image of it, while an
\* image of the other album and an image without album are still stored
C9_Witness_Cascade ==
    /\ resp.op = "albums.delete"
    /\ resp.status = 200
    /\ db.seq.gallery_images > Cardinality(db.gallery_images)
    /\ \E i \in db.gallery_images : i.album_id = Null
    /\ \E i \in db.gallery_images : i.album_id # Null /\ i.album_id # resp.id

(***************************************************************************)
(* SpecFk: trainers, the classes that reference them, and their deletes.   *)
(***************************************************************************)
FkPutBodies == {[trainer_id |-> Null], [trainer_id |-> 1]}

FkWrite ==
    \/ TrainersPost(AdminHeader, [name |-> "n"])
    \/ \E b \in RefClassBodies : ClassesPost(AdminHeader, b)
    \/ \E id \in Ids, b \in FkPutBodies : ClassesPut(AdminHeader, id, b)
    \/ \E id \in Ids : TrainersDelete(AdminHeader, id)
    \/ \E id \in Ids : ClassesDelete(AdminHeader, id)

FkRead ==
    \E h \in ReadHeaders :
        \/ TrainersList(h)
        \/ ClassesList(h)
        \/ \E id \in Ids : ClassesGet(h, id)

NextFk == FkWrite \/ FkRead

SpecFk == Init /\ [][NextFk]_vars

\* C10: the delete of a trainer that the trainer_id of a class references
\* succeeds: the trainer row is removed, one journal row is appended and
\* the class rows remain as they were.
C10_TrainerDelete ==
    [][(/\ resp'.op = "trainers.delete"
        /\ resp'.h = AdminHeader
        /\ \E t \in db.trainers : t.id = resp'.id
        /\ \E c \in db.classes : c.trainer_id = resp'.id)
       => /\ resp'.status = 200
          /\ db'.trainers = {t \in db.trainers : t.id # resp'.id}
          /\ db'.classes = db.classes
          /\ JournalGrows(1)]_vars

(***************************************************************************)
(* Authentication: login in both deployments, logout, me and password      *)
(* change.                                                                 *)
(***************************************************************************)
Passwords == {defaultPassword, "newpass99", "short"}

Emails == {AdminEmail, MixedCaseEmail, UnknownEmail}

LoginBodies ==
    {EmptyBody, [email |-> "", password |-> defaultPassword],
     [email |-> AdminEmail, password |-> ""]}
    \cup {[email |-> e, password |-> p] : e \in Emails, p \in Passwords}

PasswordBodies ==
    {EmptyBody, [currentPassword |-> "", newPassword |-> "newpass99"],
     [currentPassword |-> defaultPassword, newPassword |-> ""]}
    \cup {[currentPassword |-> c, newPassword |-> n] : c \in Passwords, n \in Passwords}

AuthHeaders == {NoHeader, AdminHeader, GhostHeader}

AuthLogin == \E b \in LoginBodies : Login(b) \/ LoginHandler(b)

AuthSession == \E h \in AuthHeaders : Logout(h) \/ Me(h)

AuthPassword == \E h \in AuthHeaders, b \in PasswordBodies : ChangePassword(h, b)

NextAuth == AuthLogin \/ AuthSession \/ AuthPassword

\* the server is started at any instant
InitAuth == \E t \in 0..MaxTime : StartAt(MaxOps, t)

SpecAuth == InitAuth /\ [][NextAuth]_vars

\* the response is the answer to a login request of either deployment
LoginOp(r) == r.op \in {"auth.login", "fn.login"} /\ ~MissingS(r.b, "email")
              /\ ~MissingS(r.b, "password")

\* the login names the address of a stored user but not that user's password
WrongPassword(r) ==
    /\ LoginOp(r)
    /\ \E u \in db.users : /\ u.email = toLowerCase(r.b.email)
                           /\ u.password_hash # bcrypt_hash(r.b.password)

\* the login names an address that no stored user has
NoSuchUser(r) ==
    /\ LoginOp(r)
    /\ ~(\E u \in db.users : u.email = toLowerCase(r.b.email))

PasswordOp(r) == r.op = "auth.password" /\ r.h = AdminHeader

\* the digest stored for the user of the token of response r in database d
DigestOf(d, r) == (CHOOSE u \in d.users : u.id = r.h.token.userId).password_hash

\* POST /login with the admin's address and this password is answered 200
\* on database d (routes/auth.js: user found and bcrypt.compare true)
LoginSucceeds(d, password) ==
    \E u \in d.users : /\ u.email = toLowerCase(AdminEmail)
                        /\ u.password_hash = bcrypt_hash(password)

\* C18: a password change replaces the stored digest only when the new
\* password has at least 8 characters and the current password matches the
\* stored digest; a change refused as too short or as not matching leaves
\* the digest and the journal as they were; after a successful change a
\* login with the old password fails and a login with the new one succeeds.
C18_ChangePassword ==
    [][PasswordOp(resp') =>
          /\ DigestOf(db', resp') # DigestOf(db, resp')
                => /\ Len(resp'.b.newPassword) >= 8
                   /\ DigestOf(db, resp') = bcrypt_hash(resp'.b.currentPassword)
          /\ resp'.out \in {"Password must be at least 8 characters",
                             "Current password is incorrect"}
                => /\ resp'.status \in {400, 401}
                   /\ DigestOf(db', resp') = DigestOf(db, resp')
                   /\ db'.activity_logs = db.activity_logs
          /\ resp'.status = 200
                => /\ ~LoginSucceeds(db', resp'.b.currentPassword)
                   /\ LoginSucceeds(db', resp'.b.newPassword)]_vars

\* the journal action of a session operation
SessionAction(op) ==
    CASE op \in {"auth.login", "fn.login"} -> "login"
      [] op = "auth.logout" -> "logout"
      [] op = "auth.password" -> "password_change"

\* the id of the user who acts in the request of response r: the user of the
\* address for a login, the user of the token otherwise
ActingUser(r) ==
    IF r.op \in {"auth.login", "fn.login"}
    THEN r.out.user.id
    ELSE r.h.token.userId

\* C19: every successful login, every logout and every successful password
\* change appends exactly one journal row with the action 'login', 'logout'
\* or 'password_change' for the acting user, and a successful login also
\* stamps that user's last_login; a failed login or a failed password change
\* appends no row and stamps nothing.
C19_SessionJournal ==
    [][resp'.op \in {"auth.login", "fn.login", "auth.logout", "auth.password"} =>
          IF resp'.status = 200
          THEN /\ Len(db'.activity_logs) = Len(db.activity_logs) + 1
               /\ SubSeq(db'.activity_logs, 1, Len(db.activity_logs)) = db.activity_logs
               /\ LET al == db'.activity_logs[Len(db'.activity_logs)]
                  IN /\ al.action = SessionAction(resp'.op)
                     /\ al.user_id = ActingUser(resp')
               /\ resp'.op \in {"auth.login", "fn.login"}
                     => \E u \in db'.users : /\ u.id = ActingUser(resp')
                                              /\ u.last_login = <<now>>
          ELSE resp'.op # "auth.logout" => db' = db]_vars

(***************************************************************************)
(* The journal of the nine content entities: creates, updates and deletes  *)
(* by the administrator and by an anonymous caller, with complete and with *)
(* empty bodies.                                                           *)
(***************************************************************************)
JournalHeaders == {AdminHeader, NoHeader}

JournalCreate ==
    \E h \in JournalHeaders :
        \/ \E b \in {FullPage, EmptyBody} : PagesPost(h, b)
        \/ \E b \in {FullPost, EmptyBody} : BlogPost(h, b)
        \/ \E b \in {FullTrainer, EmptyBody} : TrainersPost(h, b)
        \/ \E b \in {FullClass, EmptyBody} : ClassesPost(h, b)
        \/ \E b \in {FullPlan, EmptyBody} : MembershipPost(h, b)
        \/ \E b \in {FullTestimonial, EmptyBody} : TestimonialsPost(h, b)
        \/ \E b \in {FullAlbum, EmptyBody} : AlbumsPost(h, b)
        \/ \E b \in {FullImage, EmptyBody} : ImagesPost(h, b)
        \/ \E files \in {<<PngFile>>, <<>>} : MediaPost(h, files)

JournalPut ==
    \E h \in JournalHeaders, id \in UpdateIds :
        \/ PagesPut(h, id, [title |-> "x"])
        \/ BlogPut(h, id, [title |-> "x"])
        \/ TrainersPut(h, id, [name |-> "x"])
        \/ ClassesPut(h, id, [name |-> "x"])
        \/ MembershipPut(h, id, [name |-> "x"])
        \/ TestimonialsPut(h, id, [content |-> "x"])
        \/ AlbumsPut(h, id, [name |-> "x"])
        \/ ImagesPut(h, id, [caption |-> "x"])
        \/ MediaPut(h, id, [alt_text |-> "x"])

JournalDelete ==
    \E h \in JournalHeaders, id \in UpdateIds :
        \/ PagesDelete(h, id)
        \/ BlogDelete(h, id)
        \/ TrainersDelete(h, id)
        \/ ClassesDelete(h, id)
        \/ MembershipDelete(h, id)
        \/ TestimonialsDelete(h, id)
        \/ AlbumsDelete(h, id)
        \/ ImagesDelete(h, id)
        \/ MediaDelete(h, id)

NextJournal == JournalCreate \/ JournalPut \/ JournalDelete

SpecJournal == Init /\ [][NextJournal]_vars

\* the journal entity_type of each entity, by the first word of the
\* operation's name
EntityType ==
    [pages |-> "page", blog |-> "blog_post", trainers |-> "trainer", classes |-> "class",
     membership |-> "membership_plan", testimonials |-> "testimonial",
     albums |-> "gallery_album", images |-> "gallery_image", media |-> "media"]

\* the operations create, update and delete of each entity, with the journal
\* action and entity_type that belong to them
JournalTag ==
    [op \in UNION {{<<e, "post">>, <<e, "put">>, <<e, "delete">>} : e \in DOMAIN EntityType} |->
        [action |-> IF op[2] = "post" THEN "create"
                    ELSE IF op[2] = "put" THEN "update" ELSE "delete",
         entity_type |-> EntityType[op[1]]]]

\* the name under which operation op answers
OpName ==
    [pages |-> [post |-> "pages.post", put |-> "pages.put", delete |-> "pages.delete"],
     blog |-> [post |-> "blog.post", put |-> "blog.put", delete |-> "blog.delete"],
     trainers |-> [post |-> "trainers.post", put |-> "trainers.put",
                   delete |-> "trainers.delete"],
     classes |-> [post |-> "classes.post", put |-> "classes.put",
                  delete |-> "classes.delete"],
     membership |-> [post |-> "membership.post", put |-> "membership.put",
                     delete |-> "membership.delete"],
     testimonials |-> [post |-> "testimonials.post", put |-> "testimonials.put",
                       delete |-> "testimonials.delete"],
     albums |-> [post |-> "albums.post", put |-> "albums.put", delete |-> "albums.delete"],
     images |-> [post |-> "images.post", put |-> "images.put", delete |-> "images.delete"],
     media |-> [post |-> "media.post", put |-> "media.put", delete |-> "media.delete"]]

\* C12: in the router deployment every successful create, update or delete
\* of a page, blog post, trainer, class, membership plan, testimonial,
\* gallery album, gallery image or media row appends exactly one journal row
\* with action 'create', 'update' or 'delete' and the entity_type of that
\* entity, and an operation that fails appends none.
C12_JournalPerWrite ==
    [][\A op \in DOMAIN JournalTag :
            resp'.op = OpName[op[1]][op[2]] =>
                IF resp'.status \in {200, 201}
                THEN /\ JournalGrows(1)
                     /\ LET row == db'.activity_logs[Len(db'.activity_logs)]
                        IN /\ row.action = JournalTag[op].action
                           /\ row.entity_type = JournalTag[op].entity_type
                ELSE db'.activity_logs = db.activity_logs]_vars

(***************************************************************************)
(* Settings in both deployments.  A serverless update in flight is         *)
(* interleaved with reads; no second update is accepted before it has      *)
(* answered.                                                               *)
(***************************************************************************)
SettingKeys == {"site_title", "promo"}

SettingValues == {Str("x"), Num(5), Bool(TRUE), JsNull, JsObject}

\* the mappings over the keys ks and values vs: no entry, one entry, and
\* two entries of which each is a text or an object
Mappings(ks, vs) ==
    {<<>>}
    \cup {<<<<k, v>>>> : k \in ks, v \in vs}
    \cup {m \in {<<<<k1, v1>>, <<k2, v2>>>> : k1 \in ks, k2 \in ks,
                                             v1 \in vs \cap {Str("x"), JsObject},
                                             v2 \in vs \cap {Str("x"), JsObject}} :
                m[1][1] # m[2][1]}

\* the libsql client is given strings, booleans, null and objects
FnSettingValues == {v \in SettingValues : v.t # "number"}

SettingsHeaders == {AdminHeader, NoHeader}

SettingsRead ==
    \/ SettingsList
    \/ \E key \in SettingKeys : SettingsGet(key)
    \/ \E h \in SettingsHeaders : ActivityLogs(h)
    \/ SettingsHandlerGet

SettingsWrite ==
    /\ ~fn.active
    /\ \E h \in SettingsHeaders :
          \/ \E updates \in Mappings(SettingKeys, SettingValues) : SettingsPutAll(h, updates)
          \/ \E key \in SettingKeys, b \in {EmptyBody} \cup {[value |-> v] : v \in SettingValues} :
                SettingsPut(h, key, b)
          \/ \E updates \in Mappings(SettingKeys, FnSettingValues) :
                SettingsHandlerPut(h, updates)

NextSettings == SettingsRead \/ SettingsWrite \/ SettingsHandlerPutStep

SpecSettings == Init /\ [][NextSettings]_vars

\* the keys of mapping m
Keys(m) == {m[i][1] : i \in DOMAIN m}

\* the value of key k in mapping m
ValueOf(m, k) == m[CHOOSE i \in DOMAIN m : m[i][1] = k][2]

\* a read of all settings in state d
ReadAll(d) == settingsObj(SettingsTable(d.settings))

\* what a read of all settings returns after mapping m was applied to the
\* settings s
Applied(s, m) ==
    [k \in DOMAIN s \cup Keys(m) |-> IF k \in Keys(m) THEN String(ValueOf(m, k)) ELSE s[k]]

\* C13: after a successful bulk update with mapping M on settings S, a read
\* of all settings returns the string form of M[k] for every key k of M and
\* the value in S for every other key of S, over exactly the keys of S and M
\* (router: the step of the update; serverless: the step that answers, S
\* being the settings when the update was accepted).
C13_BulkUpdateRead ==
    [][/\ (~fn.active /\ resp'.op = "settings.putAll" /\ resp'.status = 200)
            => ReadAll(db') = Applied(ReadAll(db), resp'.b)
       /\ (fn.active /\ ~fn'.active /\ resp'.status = 200)
            => ReadAll(db') = Applied(settingsObj(SettingsTable(fn.before)), resp'.b)]_vars

\* C14: a bulk update is atomic: a request that fails leaves the settings as
\* they were when it was accepted, and a read of all settings never returns
\* a state in which some but not all entries of a mapping in flight are
\* written.
C14_BulkUpdateAtomic ==
    [][/\ (~fn.active /\ ~fn'.active /\ resp'.status # 200
           /\ resp'.op \in {"settings.putAll", "fn.settings.put"})
            => db'.settings = db.settings
       /\ (fn.active /\ ~fn'.active /\ resp'.status # 200)
            => db'.settings = fn.before
       /\ (fn.active /\ fn'.active /\ resp'.op = "fn.settings.get" /\ db' = db)
            => (fn.i = 1 \/ fn.i > Len(fn.updates))]_vars

(***************************************************************************)
(* Membership plans whose features are sent as an array or as the JSON     *)
(* text of that array, in both deployments.                                *)
(***************************************************************************)
FeatureLists == {<<>>, <<"a">>, <<"a", "b">>, <<"b", "a">>}

\* the array F and the string JSON.stringify(F)
FeatureForms(F) ==
    {[kind |-> "array", items |-> F], [kind |-> "string", text |-> "json", items |-> F]}

FeatureValues == UNION {FeatureForms(F) : F \in FeatureLists}

FeaturesWrite ==
    \E v \in FeatureValues :
        \/ MembershipPost(AdminHeader, [name |-> "n", price |-> 5, features |-> v])
        \/ \E id \in PlanIds : MembershipPut(AdminHeader, id, [features |-> v])
        \/ MembershipHandlerPost(AdminHeader, [name |-> "n", price |-> 5, features |-> v])

FeaturesRead ==
    \/ \E h \in ReadHeaders : MembershipList(h)
    \/ \E h \in ReadHeaders, id \in PlanIds : MembershipGet(h, id)
    \/ MembershipHandlerGet

NextFeatures == FeaturesWrite \/ FeaturesRead

SpecFeatures == Init /\ [][NextFeatures]_vars

\* the step answers a successful create or update of a plan whose body
\* carries features
WritesFeatures ==
    /\ \/ resp'.op \in {"membership.post", "fn.membership.post"} /\ resp'.status = 201
       \/ resp'.op = "membership.put" /\ resp'.status = 200
    /\ Has(resp'.b, "features")

\* C15: a plan created or updated with features sent as the list F or as
\* the serialized form of F is stored with the serialized form of F, and a
\* get or list of it returns features as the list F, never as a string.
C15_FeaturesRoundTrip ==
    [][WritesFeatures =>
          LET F == resp'.b.features.items
              plan == CHOOSE p \in db'.membership_plans : p.id = resp'.id
          IN /\ plan.features = JSON_stringify(F)
             /\ ~PlanOutThrows(plan)
             /\ PlanOut(plan).features = [kind |-> "array", items |-> F]]_vars

(***************************************************************************)
(* Blog posts created without a status or as published, updated, deleted  *)
(* and listed by callers with and without a verified token.                *)
(***************************************************************************)
DraftBodies ==
    {[title |-> "t", slug |-> sl] : sl \in Slugs}
    \cup {[title |-> "t", slug |-> sl, category |-> "c"] : sl \in Slugs}
    \cup {[title |-> "t", slug |-> sl, status |-> "published"] : sl \in Slugs}

DraftPutBodies == {[status |-> st] : st \in {"published", "draft", "archived", ""}}
                  \cup {[title |-> "u"]}

DraftHeaders == {NoHeader, AdminHeader, GarbageHeader, ExpiredHeader, GhostHeader}

DraftWrite ==
    \/ \E b \in DraftBodies : BlogPost(AdminHeader, b)
    \/ \E id \in Ids, b \in DraftPutBodies : BlogPut(AdminHeader, id, b)
    \/ \E id \in Ids : BlogDelete(AdminHeader, id)

DraftRead == \E h \in DraftHeaders, category \in {"", "c"} : BlogList(h, category)

NextDraft == DraftWrite \/ DraftRead

SpecDraft == InitAuth /\ [][NextDraft]_vars

\* C16: a blog post created with status omitted is stored with status
\* 'draft'; as long as no update has set the status of a stored post to
\* 'published', every blog list of a caller without a verified token leaves
\* it out and every blog list of a caller with a verified token contains it
\* (a list with a category filter: when the post is of that category).
C16_DraftByDefault ==
    [][/\ (resp'.op = "blog.post" /\ resp'.status = 201 /\ ~Has(resp'.b, "status"))
            => \E p \in db'.blog_posts : p.id = resp'.id /\ p.status = "draft"
       /\ resp'.op = "blog.list"
            => \A p \in db'.blog_posts :
                  p.status # "published" =>
                      IF Verified(resp'.h)
                      THEN (resp'.b.category \in {"", p.category} => p \in resp'.out)
                      ELSE p \notin resp'.out]_vars

\* the public list has been answered without the post that the only write,
\* a create without status, has stored
C16_Witness_DraftHidden ==
    /\ Len(db.activity_logs) = 1
    /\ resp.op = "blog.list"
    /\ resp.h = NoHeader
    /\ resp.status = 200
    /\ \E p \in db.blog_posts : p.status = "draft" /\ p \notin resp.out

(***************************************************************************)
(* Token-protected operations of both deployments, called with the         *)
(* administrator's token and with a token whose user row does not exist.   *)
(***************************************************************************)
GhostHeaders == {AdminHeader, GhostHeader}

GhostRouter ==
    /\ ~fn.active
    /\ \E h \in GhostHeaders :
          \/ PagesPost(h, FullPage)
          \/ PagesDelete(h, 1)
          \/ TrainersPost(h, FullTrainer)
          \/ Logout(h)
          \/ Me(h)
          \/ ChangePassword(h, [currentPassword |-> defaultPassword,
                                newPassword |-> "newpass99"])
          \/ SettingsPut(h, "promo", [value |-> Str("x")])
          \/ ActivityLogs(h)

GhostServerless ==
    /\ ~fn.active
    /\ \E h \in GhostHeaders :
          \/ MembershipHandlerPost(h, [name |-> "n", price |-> 5])
          \/ SettingsHandlerPut(h, <<<<"promo", Str("x")>>>>)

NextGhost == GhostRouter \/ GhostServerless \/ SettingsHandlerPutStep

SpecGhost == Init /\ [][NextGhost]_vars

\* the operations behind authenticateToken that SpecGhost calls
ProtectedOps ==
    {"pages.post", "pages.delete", "trainers.post", "auth.logout", "auth.me",
     "auth.password", "settings.put", "settings.logs", "fn.membership.post",
     "fn.settings.put"}

\* the token verifies and is not expired, and no user row has its id
Orphaned(h) ==
    /\ h.token.sig = "good"
    /\ now < h.token.exp
    /\ ~(\E u \in db.users : u.id = h.token.userId)

\* C17: in both deployments a token-protected operation called with a token
\* that verifies and is not expired but whose user row does not exist is
\* answered 401 'User not found' and leaves the database unchanged, and no
\* settings update is accepted for such a token.
C17_UserReResolved ==
    [][/\ (~fn.active /\ ~fn'.active /\ resp'.op \in ProtectedOps /\ Orphaned(resp'.h))
            => /\ resp'.status = 401
               /\ resp'.out = "User not found"
               /\ db' = db
       /\ (~fn.active /\ fn'.active) => ~Orphaned(fn'.h)]_vars

(***************************************************************************)
(* SpecAppend: write operations of both deployments by the administrator:  *)
(* create, update and delete of an entity, the cascading delete of an      *)
(* album, upload and delete of a media file, the delete of a seeded plan,  *)
(* the session operations, the settings writes and the serverless plan     *)
(* create.                                                                 *)
(***************************************************************************)
AppendEntity ==
    \/ PagesPost(AdminHeader, FullPage)
    \/ PagesPut(AdminHeader, 1, [title |-> "x"])
    \/ PagesDelete(AdminHeader, 1)
    \/ TrainersPost(AdminHeader, FullTrainer)
    \/ TrainersDelete(AdminHeader, 1)
    \/ AlbumsPost(AdminHeader, FullAlbum)
    \/ ImagesPost(AdminHeader, [file_path |-> "v", album_id |-> 1])
    \/ AlbumsDelete(AdminHeader, 1)
    \/ MediaPost(AdminHeader, <<PngFile>>)
    \/ MediaDelete(AdminHeader, 1)
    \/ MembershipDelete(AdminHeader, 1)

AppendSession ==
    \/ Login([email |-> AdminEmail, password |-> defaultPassword])
    \/ LoginHandler([email |-> AdminEmail, password |-> defaultPassword])
    \/ Logout(AdminHeader)
    \/ ChangePassword(AdminHeader, [currentPassword |-> defaultPassword,
                                    newPassword |-> "newpass99"])

AppendSettings ==
    \/ SettingsPutAll(AdminHeader, <<<<"promo", Str("x")>>>>)
    \/ SettingsHandlerPut(AdminHeader, <<<<"promo", Str("z")>>>>)
    \/ MembershipHandlerPost(AdminHeader, [name |-> "n", price |-> 5])

AppendRequest == ~fn.active /\ (AppendEntity \/ AppendSession \/ AppendSettings)

NextAppend == AppendRequest \/ SettingsHandlerPutStep

SpecAppend == Init /\ [][NextAppend]_vars

\* C20: the journal is append-only: every step leaves the rows of the
\* journal in place and as written (user_id, action, entity_type, entity_id,
\* details and all other columns), so the journal after a step is the
\* journal before it followed by the rows the step appended; this also
\* holds for the rows of an entity that the step deletes.
C20_JournalAppendOnly ==
    [][/\ Len(db'.activity_logs) >= Len(db.activity_logs)
       /\ \A k \in 1..Len(db.activity_logs) :
              db'.activity_logs[k] = db.activity_logs[k]]_vars

\* the page whose create is the first row of the journal has just been
\* deleted: the row of the create is still the first row of the journal
C20_Witness_DeletedEntity ==
    /\ resp.op = "pages.delete"
    /\ resp.status = 200
    /\ db.pages = {}
    /\ Len(db.activity_logs) = 2
    /\ db.activity_logs[1].action = "create"
    /\ db.activity_logs[1].entity_type = "page"
    /\ db.activity_logs[1].entity_id = resp.id
    /\ db.activity_logs[2].action = "delete"

(***************************************************************************)
(* SpecGuard: every token-protected operation of both deployments and the  *)
(* operations open to anonymous callers, called without token, with an     *)
(* empty, an unverifiable and an expired token, with the token of a user   *)
(* that has no row, with a verifying token under another scheme word and   *)
(* with the administrator's token.  A behaviour works on one table: an     *)
(* operation is called while the other tables are as initDatabase left     *)
(* them.                                                                   *)
(***************************************************************************)
GuardHeaders == Headers

\* table t is as initDatabase left it
Pristine(t) ==
    /\ db[t] = InitialDb[t]
    /\ t \in Tables => db.seq[t] = InitialDb.seq[t]

\* no request is in flight and every table but t is as initDatabase left it
Focus(t) ==
    /\ ~fn.active
    /\ \A u \in (Tables \cup {"settings"}) \ {t} : Pristine(u)

GuardPages ==
    /\ Focus("pages")
    /\ \E h \in GuardHeaders :
          \/ PagesPost(h, FullPage)
          \/ PagesPut(h, 1, [title |-> "x"])
          \/ PagesDelete(h, 1)

GuardBlog ==
    /\ Focus("blog_posts")
    /\ \E h \in GuardHeaders :
          \/ BlogPost(h, FullPost)
          \/ BlogPut(h, 1, [title |-> "x"])
          \/ BlogDelete(h, 1)

GuardTrainers ==
    /\ Focus("trainers")
    /\ \E h \in GuardHeaders :
          \/ TrainersPost(h, FullTrainer)
          \/ TrainersPut(h, 1, [name |-> "x"])
          \/ TrainersDelete(h, 1)
          \/ TrainersHandlerPost(h, [name |-> "n"])

GuardClasses ==
    /\ Focus("classes")
    /\ \E h \in GuardHeaders :
          \/ ClassesPost(h, [name |-> "n"])
          \/ ClassesPut(h, 1, [name |-> "x"])
          \/ ClassesDelete(h, 1)

GuardMembership ==
    /\ Focus("membership_plans")
    /\ \E h \in GuardHeaders :
          \/ MembershipPost(h, FullPlan)
          \/ MembershipPut(h, 1, [name |-> "x"])
          \/ MembershipDelete(h, 1)
          \/ MembershipHandlerPost(h, [name |-> "n", price |-> 5])

GuardTestimonials ==
    /\ Focus("testimonials")
    /\ \E h \in GuardHeaders :
          \/ TestimonialsPost(h, FullTestimonial)
          \/ TestimonialsPut(h, 1, [content |-> "x"])
          \/ TestimonialsDelete(h, 1)
          \/ TestimonialsHandlerPost(h, [client_name |-> "n", content |-> "c"])

GuardAlbums ==
    /\ Focus("gallery_albums")
    /\ \E h \in GuardHeaders :
          \/ AlbumsPost(h, FullAlbum)
          \/ AlbumsPut(h, 1, [name |-> "x"])
          \/ AlbumsDelete(h, 1)

GuardImages ==
    /\ Focus("gallery_images")
    /\ \E h \in GuardHeaders :
          \/ ImagesPost(h, FullImage)
          \/ ImagesPut(h, 1, [caption |-> "x"])
          \/ ImagesDelete(h, 1)

GuardMedia ==
    /\ Focus("media")
    /\ \E h \in GuardHeaders :
          \/ MediaPost(h, <<PngFile>>)
          \/ MediaPut(h, 1, [alt_text |-> "x"])
          \/ MediaDelete(h, 1)
          \/ MediaList(h, "")

GuardSettings ==
    /\ Focus("settings")
    /\ \E h \in GuardHeaders :
          \/ SettingsPutAll(h, <<<<"promo", Str("x")>>>>)
          \/ SettingsPut(h, "promo", [value |-> Str("y")])
          \/ SettingsHandlerPut(h, <<<<"promo", Str("z")>>>>)
          \/ ActivityLogs(h)

GuardContact ==
    /\ Focus("contact_submissions")
    /\ \E h \in GuardHeaders :
          \/ ContactPost(h, [name |-> "n", email |-> "a@b.c", message |-> "m"])
          \/ ContactHandlerPost([name |-> "n", email |-> "e", message |-> "m"])
          \/ ContactSubmissions(h)
          \/ ContactGet(h, 1)
          \/ ContactRead(h, 1)
          \/ ContactDelete(h, 1)
          \/ ContactHandlerGet(h)

GuardInquiries ==
    /\ Focus("membership_inquiries")
    /\ \E h \in GuardHeaders :
          \/ MembershipInquiry(h, [name |-> "n", email |-> "e"])
          \/ MembershipInquiries(h)

GuardSession ==
    /\ Focus("users")
    /\ \E h \in GuardHeaders :
          \/ Login([email |-> AdminEmail, password |-> defaultPassword])
          \/ LoginHandler([email |-> AdminEmail, password |-> defaultPassword])
          \/ Logout(h)
          \/ Me(h)
          \/ ChangePassword(h, [currentPassword |-> defaultPassword,
                                newPassword |-> "newpass99"])

NextGuard ==
    \/ GuardPages \/ GuardBlog \/ GuardTrainers \/ GuardClasses \/ GuardMembership
    \/ GuardTestimonials \/ GuardAlbums \/ GuardImages \/ GuardMedia \/ GuardSettings
    \/ GuardContact \/ GuardInquiries \/ GuardSession \/ SettingsHandlerPutStep

SpecGuard == Init /\ [][NextGuard]_vars

\* the token-protected operations of the router
RouterGuardedOps ==
    {e \o x : e \in {"pages", "blog", "trainers", "classes", "membership", "testimonials",
                      "albums", "images", "media"},
              x \in {".post", ".put", ".delete"}}
    \cup {"settings.putAll", "settings.put", "settings.logs", "media.list",
          "contact.list", "contact.get", "contact.read", "contact.delete",
          "membership.inquiries", "auth.logout", "auth.me", "auth.password"}

\* the token-protected operations of the serverless handlers
HandlerGuardedOps ==
    {"fn.trainers.post", "fn.membership.post", "fn.testimonials.post", "fn.settings.put",
     "fn.contact.get"}

\* the state-changing operations open to anonymous callers
OpenOps == {"contact.post", "fn.contact.post", "membership.inquiry", "auth.login",
            "fn.login"}

\* the token of header h verifies and resolves to a stored user
Authenticated(h) ==
    /\ h.token.sig = "good"
    /\ now < h.token.exp
    /\ \E u \in db.users : u.id = h.token.userId

\* C21: a token-protected operation called with a token that is missing,
\* does not verify, has expired or names no stored user is rejected (401 or
\* 403) and leaves every table, the journal and the stored files as they
\* were; every step that changes the store is such an operation called with
\* a verifying token of a stored user, or one of contact submission,
\* membership inquiry and login.
C21_Guarded ==
    [][/\ (~fn.active /\ ~fn'.active)
            => /\ (resp'.op \in RouterGuardedOps \cup HandlerGuardedOps
                      /\ ~Authenticated(resp'.h))
                    => /\ resp'.status \in {401, 403}
                       /\ db' = db
                       /\ disk' = disk
               /\ (db' # db \/ disk' # disk)
                    => \/ resp'.op \in OpenOps
                       \/ /\ resp'.op \in RouterGuardedOps \cup HandlerGuardedOps
                          /\ Authenticated(resp'.h)
       /\ (~fn.active /\ fn'.active) => Authenticated(fn'.h)]_vars

(***************************************************************************)
(* SpecRequired: creates of every entity in both deployments by the        *)
(* administrator (contact submissions: by an anonymous caller) with a      *)
(* complete body, with the body without one of its required fields, with   *)
(* that field empty, and with the empty body.                              *)
(***************************************************************************)
\* body b without the field f
Without(b, f) == [x \in DOMAIN b \ {f} |-> b[x]]

\* the bodies sent to a create whose complete body is b and whose required
\* fields are fs
RequiredBodies(b, fs) ==
    {b, EmptyBody} \cup {Without(b, f) : f \in fs}
       \cup {[b EXCEPT ![f] = ""] : f \in fs \ {"price"}}

FullContact == [name |-> "n", email |-> "a@b.c", phone |-> "p", subject |-> "s",
                message |-> "m"]

RequiredSlugged ==
    \/ Focus("pages") /\ \E b \in RequiredBodies(FullPage, {"title", "slug"}) :
                             PagesPost(AdminHeader, b)
    \/ Focus("blog_posts") /\ \E b \in RequiredBodies(FullPost, {"title", "slug"}) :
                                  BlogPost(AdminHeader, b)

RequiredNamed ==
    \/ Focus("trainers") /\ \E b \in RequiredBodies(FullTrainer, {"name"}) :
                                \/ TrainersPost(AdminHeader, b)
                                \/ TrainersHandlerPost(AdminHeader, b)
    \/ Focus("classes") /\ \E b \in RequiredBodies(FullClass, {"name"}) :
                               ClassesPost(AdminHeader, b)
    \/ Focus("gallery_albums") /\ \E b \in RequiredBodies(FullAlbum, {"name"}) :
                                      AlbumsPost(AdminHeader, b)
    \/ Focus("gallery_images") /\ \E b \in RequiredBodies(FullImage, {"file_path"}) :
                                      ImagesPost(AdminHeader, b)

RequiredPlan ==
    /\ Focus("membership_plans")
    /\ \E b \in RequiredBodies(FullPlan, {"name", "price"}) :
          \/ MembershipPost(AdminHeader, b)
          \/ MembershipHandlerPost(AdminHeader, b)

RequiredTestimonial ==
    /\ Focus("testimonials")
    /\ \E b \in RequiredBodies(FullTestimonial, {"client_name", "content"}) :
          \/ TestimonialsPost(AdminHeader, b)
          \/ TestimonialsHandlerPost(AdminHeader, b)

RequiredContact ==
    /\ Focus("contact_submissions")
    /\ \E b \in RequiredBodies(FullContact, {"name", "email", "message"}) :
          \/ ContactPost(NoHeader, b)
          \/ ContactHandlerPost(b)

NextRequired ==
    RequiredSlugged \/ RequiredNamed \/ RequiredPlan \/ RequiredTestimonial
       \/ RequiredContact

SpecRequired == Init /\ [][NextRequired]_vars

\* the required fields of each create
RequiredFields ==
    [op \in {"pages.post", "blog.post", "testimonials.post", "fn.testimonials.post",
             "membership.post", "fn.membership.post", "trainers.post",
             "fn.trainers.post", "classes.post", "albums.post", "images.post",
             "contact.post", "fn.contact.post"} |->
        CASE op \in {"pages.post", "blog.post"} -> {"title", "slug"}
          [] op \in {"testimonials.post", "fn.testimonials.post"} -> {"client_name", "content"}
          [] op \in {"membership.post", "fn.membership.post"} -> {"name", "price"}
          [] op \in {"trainers.post", "fn.trainers.post", "classes.post", "albums.post"}
                -> {"name"}
          [] op = "images.post" -> {"file_path"}
          [] op \in {"contact.post", "fn.contact.post"} -> {"name", "email", "message"}]

\* the body b does not give the field f: it is absent or the empty text
Omits(b, f) == f \notin DOMAIN b \/ (f # "price" /\ b[f] = "")

\* C22: a create whose body omits a required field (absent or empty; the
\* price of a plan: absent) is answered 400 and leaves every table and the
\* journal as they were: no row is inserted and no journal row appended.
C22_RequiredFields ==
    [][(/\ resp'.op \in DOMAIN RequiredFields
        /\ \E f \in RequiredFields[resp'.op] : Omits(resp'.b, f))
          => /\ resp'.status = 400
             /\ db' = db]_vars

\* after a page has been stored, a page create without slug has been refused
C22_Witness_Refused ==
    /\ resp.op = "pages.post"
    /\ resp.status = 400
    /\ "title" \in DOMAIN resp.b
    /\ "slug" \notin DOMAIN resp.b
    /\ db.pages # {}
    /\ Len(db.activity_logs) = 1

(***************************************************************************)
(* SpecMedia: uploads of an image (processed completely, up to the WebP    *)
(* copy, or not at all) and of a video, deletes of media rows, and the     *)
(* loss of a stored file outside the application, under a ticking clock.   *)
(***************************************************************************)
MediaFiles ==
    {[PngFile EXCEPT !.sharp = o] : o \in {"ok", "fail_webp", "fail_thumb"}}
       \cup {[ext |-> ".mp4", mimetype |-> "video/mp4", size |-> 1, sharp |-> "ok",
              originalname |-> "v"]}

MediaUpload == \E file \in MediaFiles : MediaPost(AdminHeader, <<file>>)

MediaRemove == \E id \in 1..(MaxUploads + 1) : MediaDelete(AdminHeader, id)

\* a file under the upload directory is removed by something else than the
\* application
FileLost ==
    /\ \E f \in disk : disk' = disk \ {f}
    /\ UNCHANGED <<db, now, ops, resp, fn, boot, twin>>

NextMedia == MediaUpload \/ MediaRemove \/ FileLost \/ Tick

SpecMedia == Init /\ [][NextMedia]_vars

\* the three files derived from the stored filename of media row m
DerivedFiles(m) ==
    {[dir |-> "uploads", base |-> m.filename.base, ext |-> m.filename.ext],
     [dir |-> "uploads/images", base |-> m.filename.base, ext |-> ".webp"],
     [dir |-> "uploads/thumbnails", base |-> m.filename.base, ext |-> "_thumb.webp"]}

\* the step is no request: the clock ticks or a file is lost
NoRequest == UNCHANGED <<db, ops, resp, fn>>

Ratings == {-1, 0, 3, 5, 9}

RatingBodies ==
    {[client_name |-> "n", content |-> "c"]}
       \cup {[client_name |-> "n", content |-> "c", rating |-> r] : r \in Ratings}

RatingPutBodies == {[content |-> "x"]} \cup {[rating |-> r] : r \in Ratings}

RatingCreate ==
    \E b \in RatingBodies : \/ TestimonialsPost(AdminHeader, b)
                             \/ TestimonialsHandlerPost(AdminHeader, b)

RatingUpdate == \E b \in RatingPutBodies : TestimonialsPut(AdminHeader, 1, b)

RatingRead == TestimonialsList(AdminHeader) \/ TestimonialsHandlerGet

NextRating == RatingCreate \/ RatingUpdate \/ RatingRead

SpecRating == Init /\ [][NextRating]_vars

\* C24: every stored testimonial has a rating from 1 to 5.
C24_RatingRange == \A t \in db.testimonials : t.rating \in 1..5

(***************************************************************************)
(* SpecBearer: the administrator creates one shown and one hidden row of   *)
(* the entities whose reads look at the Authorization header, and every    *)
(* kind of caller reads them through the router.                           *)
(***************************************************************************)
BearerPosts ==
    {[title |-> "t", slug |-> "a", status |-> "published",
      publish_date |-> [fmt |-> "sql", t |-> 0]],
     [title |-> "t", slug |-> "b", status |-> "draft"]}

BearerWrite ==
    \/ \E b \in {[title |-> "t", slug |-> "a", is_published |-> TRUE],
                 [title |-> "t", slug |-> "b", is_published |-> FALSE]} :
            PagesPost(AdminHeader, b)
    \/ \E b \in FlagBodies([name |-> "n"], "is_active") : TrainersPost(AdminHeader, b)
    \/ \E b \in FlagBodies([name |-> "n"], "is_active") : ClassesPost(AdminHeader, b)
    \/ \E b \in FlagBodies([name |-> "n", price |-> 5], "is_active") :
            MembershipPost(AdminHeader, b)
    \/ \E b \in FlagBodies([client_name |-> "n", content |-> "c"], "is_approved") :
            TestimonialsPost(AdminHeader, b)
    \/ \E b \in BearerPosts : BlogPost(AdminHeader, b)

BearerList ==
    \E h \in Headers :
        \/ PagesList(h)
        \/ TrainersList(h)
        \/ ClassesList(h)
        \/ MembershipList(h)
        \/ TestimonialsList(h)

BearerPage == \E h \in Headers, slug \in {"a", "b"} : PagesGet(h, slug)

BearerBlog ==
    \E h \in Headers :
        \/ BlogList(h, "")
        \/ \E slug \in {"a", "b"} : BlogGet(h, slug)

NextBearer == BearerWrite \/ BearerList \/ BearerPage \/ BearerBlog

SpecBearer == Init /\ [][NextBearer]_vars

\* the Authorization header starts with 'Bearer '
StartsWithBearer(h) == h # NoHeader /\ h.scheme = "Bearer"

\* headers that start with 'Bearer ' and carry no token that verifies
Unverifiable == {GarbageHeader, ExpiredHeader, EmptyBearerHeader}

\* a post as the blog endpoints show it to an anonymous caller
PublicPost(p) == p.status = "published" /\ p.publish_date.t <= now

SessionHeaders == {AdminHeader, ShortHeader}

SessionLogout == \E h \in SessionHeaders : Logout(h)

SessionPassword ==
    \E h \in SessionHeaders :
        ChangePassword(h, [currentPassword |-> defaultPassword,
                           newPassword |-> "newpass99"])

SessionProtected ==
    \E h \in SessionHeaders :
        \/ Me(h)
        \/ ContactSubmissions(h)
        \/ PagesPost(h, [title |-> "t", slug |-> "a"])
        \/ TrainersDelete(h, 1)
        \/ ContactHandlerGet(h)
        \/ TrainersHandlerPost(h, [name |-> "n"])

NextSession == SessionLogout \/ SessionPassword \/ SessionProtected \/ Tick

SpecSession == Init /\ [][NextSession]_vars

\* the token of header h has not expired and its user row is stored
Alive(h) ==
    /\ now < h.token.exp
    /\ \E u \in db.users : u.id = h.token.userId

\* the answer of a middleware that turned the token down
TokenRefused(r) ==
    /\ r.status \in {401, 403}
    /\ r.out \in {"Authentication required", "Token expired", "Invalid token",
                  "User not found", "Access token required", "Invalid or expired token"}

\* the journal holds a row of this action by the administrator
Journalled(action) ==
    \E i \in 1..Len(db.activity_logs) :
        /\ db.activity_logs[i].action = action
        /\ db.activity_logs[i].user_id = AdminId

\* C29: a logout writes nothing but one more journal row, and a validly
\* signed token is accepted by every token-protected operation for as long as
\* it has not expired and its user row is stored, whatever logouts and
\* password changes of that user came before.
C29_LogoutKeepsToken ==
    [][~NoRequest =>
          /\ (resp'.op = "auth.logout" /\ resp'.status = 200) =>
                /\ \A t \in DOMAIN db \ {"activity_logs"} : db'[t] = db[t]
                /\ Len(db'.activity_logs) = Len(db.activity_logs) + 1
                /\ SubSeq(db'.activity_logs, 1, Len(db.activity_logs)) = db.activity_logs
                /\ disk' = disk
          /\ (resp'.op \in RouterGuardedOps \cup HandlerGuardedOps
                /\ resp'.h \in SessionHeaders) =>
                (TokenRefused(resp') <=> ~Alive(resp'.h))]_vars

\* after a logout and a password change of the administrator the token
\* issued before them is still accepted
C29_Witness_StillAccepted ==
    /\ Journalled("logout")
    /\ Journalled("password_change")
    /\ resp.op = "auth.me"
    /\ resp.h = AdminHeader
    /\ resp.status = 200

(***************************************************************************)
(* SpecRace: requests of two clients that target one slug.  The router's   *)
(* middleware and handlers are synchronous (better-sqlite3 statements, no  *)
(* await), so the event loop runs each handler from its first check to its *)
(* response before it starts the next one: requests in flight at the same  *)
(* time are handled one after the other, in either order.  The body's      *)
(* title tells the requests apart.                                         *)
(***************************************************************************)
RaceClients == {"first", "second"}

RaceSlugs == {"a", "b"}

RaceCreate ==
    \E c \in RaceClients, s \in RaceSlugs :
        \/ PagesPost(AdminHeader, [title |-> c, slug |-> s])
        \/ BlogPost(AdminHeader, [title |-> c, slug |-> s])

RaceUpdate ==
    \E c \in RaceClients, id \in 1..2 :
        \/ PagesPut(AdminHeader, id, [title |-> c, slug |-> "a"])
        \/ BlogPut(AdminHeader, id, [title |-> c, slug |-> "a"])

NextRace == RaceCreate \/ RaceUpdate

InitRace == StartAt(MaxOps + 1, 0)

SpecRace == InitRace /\ [][NextRace]_vars

\* the table a create or update of a slug-bearing entity writes
RaceTable ==
    [pages_post |-> <<"pages.post", "pages">>, pages_put |-> <<"pages.put", "pages">>,
     blog_post |-> <<"blog.post", "blog_posts">>, blog_put |-> <<"blog.put", "blog_posts">>]

\* the step answers a create or an update that asks for a slug which a row
\* written by the other request already holds
Loses(k) ==
    /\ resp'.op = RaceTable[k][1]
    /\ \E p \in db[RaceTable[k][2]] : p.slug = resp'.b.slug /\ p.id # resp'.id
    /\ resp'.op \in {"pages.put", "blog.put"} =>
            \E r \in db[RaceTable[k][2]] : r.id = resp'.id

\* C26 as stated: of two requests that target one slug at most one stores
\* it, no two rows of an entity ever share a slug, the request that loses
\* fails at the storage uniqueness constraint (the INSERT or UPDATE throws
\* and the handler answers 500), and it leaves no row and no journal row.
C26_LoserFailsAtStorage ==
    /\ []SlugsUnique
    /\ [][\A k \in DOMAIN RaceTable :
            Loses(k) => /\ resp'.status = 500
                        /\ db' = db]_vars

\* C26, amended: of two requests that target one slug at most one stores
\* it, no two rows of an entity ever share a slug, the request that is
\* handled second is refused by the handler's own slug lookup with 400 'Slug
\* already exists' before any write, and it leaves no row and no journal
\* row.
C26_LoserFailsAtLookup ==
    /\ []SlugsUnique
    /\ [][\A k \in DOMAIN RaceTable :
            Loses(k) => /\ resp'.status = 400
                        /\ resp'.out = "Slug already exists"
                        /\ db' = db]_vars

\* the second client's create has lost against the first client's row
C26_Witness_Lost ==
    /\ resp.op = "pages.post"
    /\ resp.b.title = "second"
    /\ resp.status = 400
    /\ \E p \in db.pages : p.slug = resp.b.slug /\ p.title = "first"
    /\ ~(\E p \in db.pages : p.title = "second")
    /\ Len(db.activity_logs) = 1

(***************************************************************************)
(* initDatabase of the serverless deployment.  Every handler awaits it     *)
(* before anything else, and every statement of it is awaited on its own,  *)
(* without a transaction, so the statements of two requests interleave.    *)
(* The CREATE TABLE IF NOT EXISTS statements write no row and are folded   *)
(* into the call.  In the behaviours of SpecSeed db.settings holds the     *)
(* rows of the settings table themselves (key |-> value; key is UNIQUE).   *)
(***************************************************************************)
\* const defaultSettings of seedDefaultData
seedSettings ==
    << <<"site_title", "PowerHouse Gym Chitwan">>,
       <<"site_tagline", "Transform Your Body, Transform Your Life">>,
       <<"contact_email", "info@powerhousegym.com">>,
       <<"contact_phone", "+977-9800000000">>,
       <<"contact_address", "Narayangadh, Chitwan, Nepal">>,
       <<"primary_color", "#ff4d4d">>,
       <<"hero_title", "BUILD YOUR BODY & PUSH YOUR LIMITS">> >>

\* const plans of seedDefaultData
seedPlans ==
    << [name |-> "Basic", price |-> 2000, billing_period |-> "month",
        description |-> "Perfect for beginners",
        features |-> JSON_stringify(<<"Gym Access", "Locker Room", "Basic Equipment">>),
        is_featured |-> 0],
       [name |-> "Premium", price |-> 3500, billing_period |-> "month",
        description |-> "Most popular choice",
        features |-> JSON_stringify(<<"All Equipment", "Group Classes",
                                      "Fitness Assessment">>),
        is_featured |-> 1],
       [name |-> "Elite", price |-> 5000, billing_period |-> "month",
        description |-> "For serious athletes",
        features |-> JSON_stringify(<<"Everything in Premium", "Personal Training",
                                      "Nutrition Plan">>),
        is_featured |-> 0] >>

\* a store without any row
EmptyDb ==
    [InitialDb EXCEPT !.users = {}, !.membership_plans = {}, !.settings = <<>>,
                      !.seq = [t \in Tables |-> 0]]

\* request p moves to statement pc with loop index i
Goto(p, pc, i) == boot' = [boot EXCEPT ![p] = [pc |-> pc, i |-> i]]

\* a statement of request p throws: initDatabase rejects, the handler awaits
\* it outside its try block, and the request fails
SeedThrows(p) ==
    /\ Goto(p, "idle", 0)
    /\ resp' = Reply("fn.membership.get", NoHeader, p, EmptyBody, 500,
                     "unhandled rejection")
    /\ UNCHANGED <<db, now, ops, disk, fn, twin>>

\* handler: await initDatabase()
InitDatabaseCall(p) ==
    /\ boot[p].pc = "idle"
    /\ ops > 0
    /\ ops' = ops - 1
    /\ Goto(p, "users_check", 0)
    /\ UNCHANGED <<db, now, resp, disk, fn, twin>>

\* SELECT COUNT(*) FROM users
SeedUsersCheck(p) ==
    /\ boot[p].pc = "users_check"
    /\ Goto(p, IF db.users = {} THEN "hash" ELSE "settings_check", 0)
    /\ UNCHANGED <<db, now, ops, resp, disk, fn, twin>>

\* await bcrypt.hash(defaultPassword, 12)
SeedHash(p) ==
    /\ boot[p].pc = "hash"
    /\ Goto(p, "users_insert", 0)
    /\ UNCHANGED <<db, now, ops, resp, disk, fn, twin>>

\* INSERT INTO users; email is UNIQUE
SeedUsersInsert(p) ==
    /\ boot[p].pc = "users_insert"
    /\ IF \E u \in db.users : u.email = AdminEmail
       THEN SeedThrows(p)
       ELSE /\ db' = [db EXCEPT
                        !.users = @ \cup {[id |-> db.seq.users + 1, email |-> AdminEmail,
                                           password_hash |-> bcrypt_hash(defaultPassword),
                                           name |-> "Admin", role |-> "super_admin",
                                           last_login |-> <<>>]},
                        !.seq.users = @ + 1]
            /\ Goto(p, "settings_check", 0)
            /\ UNCHANGED <<now, ops, resp, disk, fn, twin>>

\* SELECT COUNT(*) FROM settings
SeedSettingsCheck(p) ==
    /\ boot[p].pc = "settings_check"
    /\ IF DOMAIN db.settings = {}
       THEN Goto(p, "settings_insert", 1)
       ELSE Goto(p, "plans_check", 0)
    /\ UNCHANGED <<db, now, ops, resp, disk, fn, twin>>

\* one turn of the loop: INSERT INTO settings (key, value); key is UNIQUE
SeedSettingsInsert(p) ==
    LET i == boot[p].i
        key == seedSettings[i][1]
    IN /\ boot[p].pc = "settings_insert"
       /\ IF key \in DOMAIN db.settings
          THEN SeedThrows(p)
          ELSE /\ db' = [db EXCEPT !.settings = @ @@ (key :> seedSettings[i][2])]
               /\ IF i = Len(seedSettings)
                  THEN Goto(p, "plans_check", 0)
                  ELSE Goto(p, "settings_insert", i + 1)
               /\ UNCHANGED <<now, ops, resp, disk, fn, twin>>

\* SELECT COUNT(*) FROM membership_plans
SeedPlansCheck(p) ==
    /\ boot[p].pc = "plans_check"
    /\ IF db.membership_plans = {}
       THEN Goto(p, "plans_insert", 1)
       ELSE Goto(p, "respond", 0)
    /\ UNCHANGED <<db, now, ops, resp, disk, fn, twin>>

\* one turn of the loop: INSERT INTO membership_plans; no column but id is
\* unique
SeedPlansInsert(p) ==
    LET i == boot[p].i
        plan == seedPlans[i] @@ [id |-> db.seq.membership_plans + 1, is_active |-> 1,
                                 sort_order |-> 0, created_at |-> now]
    IN /\ boot[p].pc = "plans_insert"
       /\ db' = [db EXCEPT !.membership_plans = @ \cup {plan},
                           !.seq.membership_plans = @ + 1]
       /\ IF i = Len(seedPlans)
          THEN Goto(p, "respond", 0)
          ELSE Goto(p, "plans_insert", i + 1)
       /\ UNCHANGED <<now, ops, resp, disk, fn, twin>>

\* initDatabase has returned: the GET branch of the membership handler
SeedRespond(p) ==
    /\ boot[p].pc = "respond"
    /\ Goto(p, "idle", 0)
    /\ resp' = Reply("fn.membership.get", NoHeader, p, EmptyBody, 200,
                     {PlanOut(q) : q \in {r \in db.membership_plans : r.is_active = 1}})
    /\ UNCHANGED <<db, now, ops, disk, fn, twin>>

(***************************************************************************)
(* SpecSeed: requests reach the serverless deployment on an empty store,   *)
(* one after the other or at the same time.                                *)
(***************************************************************************)
InitSeed ==
    /\ db = EmptyDb
    /\ now = 0
    /\ ops = MaxOps + 1
    /\ resp = Reply("none", NoHeader, Null, EmptyBody, 0, "")
    /\ disk = {}
    /\ fn = Idle
    /\ boot = NoBoot
    /\ twin = NoTwin

NextSeed ==
    \E p \in Procs :
        \/ InitDatabaseCall(p)
        \/ SeedUsersCheck(p)
        \/ SeedHash(p)
        \/ SeedUsersInsert(p)
        \/ SeedSettingsCheck(p)
        \/ SeedSettingsInsert(p)
        \/ SeedPlansCheck(p)
        \/ SeedPlansInsert(p)
        \/ SeedRespond(p)

SpecSeed == InitSeed /\ [][NextSeed]_vars

\* the store holds the default rows once
SeededOnce ==
    /\ Cardinality(db.users) = 1
    /\ DOMAIN db.settings = {seedSettings[i][1] : i \in 1..Len(seedSettings)}
    /\ Cardinality(db.membership_plans) = Len(seedPlans)

\* C28: seeding happens once: whenever a request has been answered and no
\* request is inside initDatabase the store holds one default admin, one row
\* per default setting key and three default plans; requests that reach an
\* empty store at the same time never leave more than three default plans
\* and none of them fails.
C28_SeedOnce ==
    /\ Cardinality(db.membership_plans) <= Len(seedPlans)
    /\ resp.status # 500
    /\ (boot = NoBoot /\ resp.op # "none") => SeededOnce

(***************************************************************************)
(* SpecTwin: one sequence of requests run against the router and against   *)
(* the serverless handlers, both starting from the store initDatabase      *)
(* leaves.  db is the store of the deployment whose turn it is and         *)
(* twin.store the store of the other one: the router answers a request,    *)
(* the stores change places, the handler of the same operation answers the *)
(* same request, and the stores change places again.                       *)
(***************************************************************************)
TwinHeaders == {NoHeader, AdminHeader}

TwinUpdates == <<<<"promo", Str("x")>>>>

TwinLogin == [email |-> AdminEmail, password |-> defaultPassword]

TwinContact == [name |-> "n", email |-> "a@b.c", message |-> "m"]

\* the operations both deployments provide, by the router's name
TwinOps ==
    {"auth.login", "trainers.list", "trainers.post", "membership.list", "membership.post",
     "testimonials.list", "testimonials.post", "settings.list", "settings.putAll",
     "contact.post"}

TwinHandlerOps ==
    {"fn.login", "fn.trainers.get", "fn.trainers.post", "fn.membership.get",
     "fn.membership.post", "fn.testimonials.get", "fn.testimonials.post",
     "fn.settings.get", "fn.settings.put", "fn.contact.post"}

\* a request reaches the router
TwinRouter ==
    /\ twin.phase = "router"
    /\ resp.op \notin TwinOps
    /\ \/ Login(TwinLogin)
       \/ \E h \in TwinHeaders :
            \/ TrainersList(h)
            \/ MembershipList(h)
            \/ TestimonialsList(h)
            \/ TrainersPost(h, [name |-> "n"])
            \/ MembershipPost(h, [name |-> "n", price |-> 5])
            \/ TestimonialsPost(h, [client_name |-> "n", content |-> "c"])
            \/ SettingsPutAll(h, TwinUpdates)
       \/ SettingsList
       \/ ContactPost(NoHeader, TwinContact)

\* the deployments change places
TwinSwap ==
    /\ ~fn.active
    /\ \/ twin.phase = "router" /\ resp.op \in TwinOps
       \/ twin.phase = "handler" /\ resp.op \in TwinHandlerOps
    /\ db' = twin.store
    /\ ops' = twin.ops
    /\ twin' = [phase |-> IF twin.phase = "router" THEN "handler" ELSE "router",
                store |-> db, ops |-> ops, resp |-> resp]
    /\ UNCHANGED <<now, resp, disk, fn, boot>>

\* the request the router has answered reaches the handler of the operation
TwinHandler ==
    /\ twin.phase = "handler"
    /\ ~fn.active
    /\ resp.op \in TwinOps
    /\ CASE resp.op = "auth.login" -> LoginHandler(resp.b)
         [] resp.op = "trainers.list" -> TrainersHandlerGet
         [] resp.op = "trainers.post" -> TrainersHandlerPost(resp.h, resp.b)
         [] resp.op = "membership.list" -> MembershipHandlerGet
         [] resp.op = "membership.post" -> MembershipHandlerPost(resp.h, resp.b)
         [] resp.op = "testimonials.list" -> TestimonialsHandlerGet
         [] resp.op = "testimonials.post" -> TestimonialsHandlerPost(resp.h, resp.b)
         [] resp.op = "settings.list" -> SettingsHandlerGet
         [] resp.op = "settings.putAll" -> SettingsHandlerPut(resp.h, resp.b)
         [] resp.op = "contact.post" -> ContactHandlerPost(resp.b)

NextTwin == TwinRouter \/ TwinSwap \/ TwinHandler \/ SettingsHandlerPutStep

InitTwin ==
    /\ db = InitialDb
    /\ now = 0
    /\ ops = MaxOps
    /\ resp = Reply("none", NoHeader, Null, EmptyBody, 0, "")
    /\ disk = {}
    /\ fn = Idle
    /\ boot = NoBoot
    /\ twin = [phase |-> "router", store |-> InitialDb, ops |-> MaxOps,
               resp |-> Reply("none", NoHeader, Null, EmptyBody, 0, "")]

SpecTwin == InitTwin /\ [][NextTwin]_vars

\* both deployments have answered the request
TwinAnswered == twin.phase = "handler" /\ ~fn.active /\ resp.op \in TwinHandlerOps

\* C25: after the same sequence of requests the router's store and the
\* handlers' store hold the same rows (journal rows, flag defaults and
\* setting rows included), and a list answered by the router and by the
\* handler to the same caller carries the same rows.
C25_SameRules ==
    TwinAnswered =>
        /\ db = twin.store
        /\ twin.resp.op \in {"trainers.list", "membership.list", "testimonials.list",
                             "settings.list"}
              => resp.out = twin.resp.out

====
